---- MODULE Spec2Model ----
(***************************************************************************)
(* Ask-DeepSeek (ads): the request/response lifecycle of one invocation.   *)
(*                                                                         *)
(* Byte strings are sequences of one-character strings.  A C string is a   *)
(* byte string that holds no zero byte; NUL stands for the zero byte and   *)
(* NULL for the null pointer.                                              *)
(***************************************************************************)
EXTENDS Integers, Sequences, FiniteSets, TLC

NUL == "NUL"
NULL == <<"NULL">>
LF == "\n"
QUOTE == "\""
BSL == "\\"
\* Backspace and form feed, the two control bytes with an escape of their own.
BS == "BS"
FF == "FF"

(***************************************************************************)
(* Generic helpers on byte strings.                                        *)
(***************************************************************************)
Min(S) == CHOOSE x \in S : \A y \in S : x <= y

\* The elements of a finite set of integers, in increasing order.
SortedSeq(S) ==
    [k \in 1..Cardinality(S) |-> CHOOSE p \in S : Cardinality({q \in S : q < p}) = k - 1]

\* n copies of the byte c.
Pad(c, n) == [i \in 1..n |-> c]

\* Concatenation of a sequence of byte strings (balanced, so that the
\* evaluation depth is logarithmic in the number of pieces).
RECURSIVE ConcatRange(_, _, _)
ConcatRange(ss, lo, hi) ==
    IF lo > hi THEN <<>>
    ELSE IF lo = hi THEN ss[lo]
    ELSE LET mid == (lo + hi) \div 2
         IN  ConcatRange(ss, lo, mid) \o ConcatRange(ss, mid + 1, hi)

Concat(ss) == ConcatRange(ss, 1, Len(ss))

\* The C string that starts at s[i]: the bytes before the first zero byte.
CStrEnd(s, i) == Min({j \in i..Len(s) : s[j] = NUL} \cup {Len(s) + 1})

(***************************************************************************)
(* cJSON items.  Every item is a record [t, v]: t is the item type, v the  *)
(* string bytes, the integer, the array elements, or the object members    *)
(* (a sequence of <<key, item>> pairs, in insertion order).                *)
(***************************************************************************)
JNull == [t |-> "null", v |-> <<>>]
JTrue == [t |-> "true", v |-> <<>>]
JFalse == [t |-> "false", v |-> <<>>]
JStr(s) == [t |-> "string", v |-> s]
JNum(n) == [t |-> "number", v |-> n]
JArr(items) == [t |-> "array", v |-> items]
JObj(members) == [t |-> "object", v |-> members]
\* The null item pointer (a lookup that found nothing, a failed parse).
JNone == [t |-> "none", v |-> <<>>]

cJSON_IsString(item) == item.t = "string"
cJSON_IsArray(item) == item.t = "array"
cJSON_IsObject(item) == item.t = "object"

UpperCase == <<"A", "B", "C", "D", "E", "F", "G", "H", "I", "J", "K", "L", "M",
               "N", "O", "P", "Q", "R", "S", "T", "U", "V", "W", "X", "Y", "Z">>
LowerCase == <<"a", "b", "c", "d", "e", "f", "g", "h", "i", "j", "k", "l", "m",
               "n", "o", "p", "q", "r", "s", "t", "u", "v", "w", "x", "y", "z">>

ToLower(c) ==
    IF \E i \in 1..26 : UpperCase[i] = c
    THEN LowerCase[CHOOSE i \in 1..26 : UpperCase[i] = c]
    ELSE c

\* cJSON_GetObjectItem compares keys without regard to case.
SameKey(a, b) ==
    /\ Len(a) = Len(b)
    /\ \A i \in 1..Len(a) : ToLower(a[i]) = ToLower(b[i])

\* The first member whose key matches; the null item for a null pointer, for
\* an item that is not an object, and for an object without the key.
cJSON_GetObjectItem(item, key) ==
    IF ~cJSON_IsObject(item) THEN JNone
    ELSE LET hits == {i \in 1..Len(item.v) : SameKey(item.v[i][1], key)}
         IN  IF hits = {} THEN JNone ELSE item.v[Min(hits)][2]

cJSON_GetArraySize(item) == IF cJSON_IsArray(item) \/ cJSON_IsObject(item) THEN Len(item.v) ELSE 0

cJSON_GetArrayItem(item, index) ==
    IF cJSON_IsArray(item) /\ index + 1 \in 1..Len(item.v) THEN item.v[index + 1]
    ELSE IF cJSON_IsObject(item) /\ index + 1 \in 1..Len(item.v) THEN item.v[index + 1][2]
    ELSE JNone

(***************************************************************************)
(* cJSON_PrintUnformatted: the compact rendering of an item.               *)
(***************************************************************************)
\* print_string_ptr: the escape sequence of one byte of a string.
EscapeByte(c) ==
    IF c = QUOTE THEN <<BSL, QUOTE>>
    ELSE IF c = BSL THEN <<BSL, BSL>>
    ELSE IF c = LF THEN <<BSL, "n">>
    ELSE IF c = "\t" THEN <<BSL, "t">>
    ELSE IF c = "\r" THEN <<BSL, "r">>
    ELSE IF c = BS THEN <<BSL, "b">>
    ELSE IF c = FF THEN <<BSL, "f">>
    ELSE <<c>>

PrintString(s) ==
    <<QUOTE>> \o Concat([i \in 1..Len(s) |-> EscapeByte(s[i])]) \o <<QUOTE>>

Digits == <<"0", "1", "2", "3", "4", "5", "6", "7", "8", "9">>

RECURSIVE PrintNat(_)
PrintNat(n) == IF n < 10 THEN <<Digits[n + 1]>> ELSE PrintNat(n \div 10) \o <<Digits[(n % 10) + 1]>>

PrintNumber(n) == IF n < 0 THEN <<"-">> \o PrintNat(0 - n) ELSE PrintNat(n)

\* Pieces joined by commas.
JoinComma(ps) ==
    Concat([i \in 1..Len(ps) |-> IF i = 1 THEN ps[i] ELSE <<",">> \o ps[i]])

RECURSIVE cJSON_PrintUnformatted(_)
cJSON_PrintUnformatted(item) ==
    CASE item.t = "null" -> <<"n", "u", "l", "l">>
      [] item.t = "true" -> <<"t", "r", "u", "e">>
      [] item.t = "false" -> <<"f", "a", "l", "s", "e">>
      [] item.t = "number" -> PrintNumber(item.v)
      [] item.t = "string" -> PrintString(item.v)
      [] item.t = "array" ->
            <<"[">> \o JoinComma([i \in 1..Len(item.v) |-> cJSON_PrintUnformatted(item.v[i])])
                    \o <<"]">>
      [] item.t = "object" ->
            <<"{">> \o JoinComma([i \in 1..Len(item.v) |->
                           PrintString(item.v[i][1]) \o <<":">>
                               \o cJSON_PrintUnformatted(item.v[i][2])])
                    \o <<"}">>

(***************************************************************************)
(* cJSON_Parse: the item a C string decodes to, or the null item.  Text    *)
(* after the first complete value is ignored, as cJSON_Parse does not      *)
(* require the value to end the string.  The modelled grammar has objects, *)
(* arrays, strings with the two-character escapes, integers and the three  *)
(* literals.                                                               *)
(***************************************************************************)
\* buffer_skip_whitespace: bytes up to 32 are skipped.
IsSpace(c) == c \in {" ", "\t", LF, "\r"}

SkipWhitespace(s, i) ==
    Min({j \in i..Len(s) : ~IsSpace(s[j])} \cup {Len(s) + 1})

At(s, i) == IF i \in 1..Len(s) THEN s[i] ELSE NUL

ParseFailed(i) == [ok |-> FALSE, v |-> JNone, n |-> i]
Parsed(item, next) == [ok |-> TRUE, v |-> item, n |-> next]

\* The number of consecutive backslashes that end at s[j], counted back to
\* the byte after the opening quote at s[i].
BackslashRun(s, i, j) ==
    Cardinality({k \in (i + 1)..j : \A m \in k..j : s[m] = BSL})

\* s[j] is a backslash that starts an escape sequence.
EscapeLead(s, i, j) == j > i /\ BackslashRun(s, i, j) % 2 = 1

\* s[j] is the byte an escape sequence names.
Escaped(s, i, j) == j - 1 > i /\ EscapeLead(s, i, j - 1)

Unescape(c) ==
    IF c = "n" THEN LF
    ELSE IF c = "t" THEN "\t"
    ELSE IF c = "r" THEN "\r"
    ELSE IF c = "b" THEN BS
    ELSE IF c = "f" THEN FF
    ELSE c

EscapeNames == {QUOTE, BSL, "/", "b", "f", "n", "r", "t"}

\* parse_string, second pass: at holds the positions of the bytes between
\* the quotes at s[i] and s[e] that are not the backslash of an escape.
StringDecode(s, i, e, at) ==
    IF \E k \in 1..Len(at) : Escaped(s, i, at[k]) /\ s[at[k]] \notin EscapeNames
    THEN ParseFailed(i)
    ELSE Parsed(JStr([k \in 1..Len(at) |->
                        IF Escaped(s, i, at[k]) THEN Unescape(s[at[k]]) ELSE s[at[k]]]),
                e + 1)

\* parse_string, first pass: closes holds the unescaped quotes after s[i].
StringClosed(s, i, closes) ==
    IF closes = {} THEN ParseFailed(i)
    ELSE StringDecode(s, i, Min(closes),
                      SortedSeq({j \in (i + 1)..(Min(closes) - 1) : ~EscapeLead(s, i, j)}))

\* parse_string: the string whose opening quote is s[i].
ParseString(s, i) ==
    IF At(s, i) # QUOTE THEN ParseFailed(i)
    ELSE StringClosed(s, i, {j \in (i + 1)..Len(s) : s[j] = QUOTE /\ ~Escaped(s, i, j)})

IsDigit(c) == \E d \in 1..10 : Digits[d] = c
DigitValue(c) == (CHOOSE d \in 1..10 : Digits[d] = c) - 1

RECURSIVE NatValue(_, _, _)
NatValue(s, lo, hi) ==
    IF lo > hi THEN 0 ELSE NatValue(s, lo, hi - 1) * 10 + DigitValue(s[hi])

\* The digits s[first..stop-1], negated when neg.
NumberFrom(s, i, neg, first, stop) ==
    IF stop = first THEN ParseFailed(i)
    ELSE Parsed(JNum(IF neg THEN 0 - NatValue(s, first, stop - 1)
                     ELSE NatValue(s, first, stop - 1)),
                stop)

DigitsEnd(s, first) == Min({j \in first..Len(s) : ~IsDigit(s[j])} \cup {Len(s) + 1})

\* parse_number: an optional minus sign and decimal digits.
ParseNumber(s, i) ==
    IF At(s, i) = "-" THEN NumberFrom(s, i, TRUE, i + 1, DigitsEnd(s, i + 1))
    ELSE NumberFrom(s, i, FALSE, i, DigitsEnd(s, i))

Literal(s, i, word) == i + Len(word) - 1 <= Len(s) /\ SubSeq(s, i, i + Len(word) - 1) = word

RECURSIVE ParseValue(_, _)
RECURSIVE ParseElements(_, _, _)
RECURSIVE ParseMembers(_, _, _)

\* parse_array after an element: j is the next byte that is no whitespace.
ElementNext(s, i, acc, j) ==
    IF At(s, j) = "," THEN ParseElements(s, j + 1, acc)
    ELSE IF At(s, j) = "]" THEN Parsed(JArr(acc), j + 1)
    ELSE ParseFailed(i)

ElementParsed(s, i, acc, r) ==
    IF ~r.ok THEN ParseFailed(i)
    ELSE ElementNext(s, i, Append(acc, r.v), SkipWhitespace(s, r.n))

\* parse_array after the opening bracket or a comma: i is the byte after it.
ParseElements(s, i, acc) == ElementParsed(s, i, acc, ParseValue(s, SkipWhitespace(s, i)))

\* parse_array: j is the first byte after the bracket that is no whitespace.
ParseArray(s, j) ==
    IF At(s, j) = "]" THEN Parsed(JArr(<<>>), j + 1) ELSE ParseElements(s, j, <<>>)

\* parse_object after a member: j is the next byte that is no whitespace.
MemberNext(s, i, acc, j) ==
    IF At(s, j) = "," THEN ParseMembers(s, j + 1, acc)
    ELSE IF At(s, j) = "}" THEN Parsed(JObj(acc), j + 1)
    ELSE ParseFailed(i)

MemberParsed(s, i, acc, key, r) ==
    IF ~r.ok THEN ParseFailed(i)
    ELSE MemberNext(s, i, Append(acc, <<key, r.v>>), SkipWhitespace(s, r.n))

\* parse_object after a key: c is the next byte that is no whitespace.
MemberColon(s, i, acc, key, c) ==
    IF At(s, c) # ":" THEN ParseFailed(i)
    ELSE MemberParsed(s, i, acc, key, ParseValue(s, SkipWhitespace(s, c + 1)))

MemberKey(s, i, acc, k) ==
    IF ~k.ok THEN ParseFailed(i)
    ELSE MemberColon(s, i, acc, k.v.v, SkipWhitespace(s, k.n))

\* parse_object after the opening brace or a comma: i is the byte after it.
ParseMembers(s, i, acc) == MemberKey(s, i, acc, ParseString(s, SkipWhitespace(s, i)))

\* parse_object: j is the first byte after the brace that is no whitespace.
ParseObject(s, j) ==
    IF At(s, j) = "}" THEN Parsed(JObj(<<>>), j + 1) ELSE ParseMembers(s, j, <<>>)

\* parse_value: the value that starts at s[i].
ParseValue(s, i) ==
    IF Literal(s, i, <<"n", "u", "l", "l">>) THEN Parsed(JNull, i + 4)
    ELSE IF Literal(s, i, <<"f", "a", "l", "s", "e">>) THEN Parsed(JFalse, i + 5)
    ELSE IF Literal(s, i, <<"t", "r", "u", "e">>) THEN Parsed(JTrue, i + 4)
    ELSE IF At(s, i) = QUOTE THEN ParseString(s, i)
    ELSE IF At(s, i) = "-" \/ IsDigit(At(s, i)) THEN ParseNumber(s, i)
    ELSE IF At(s, i) = "[" THEN ParseArray(s, SkipWhitespace(s, i + 1))
    ELSE IF At(s, i) = "{" THEN ParseObject(s, SkipWhitespace(s, i + 1))
    ELSE ParseFailed(i)

ParseResult(r) == IF r.ok THEN r.v ELSE JNone

\* cJSON_Parse of the C string s; the null item when it does not decode.
cJSON_Parse(s) == ParseResult(ParseValue(s, SkipWhitespace(s, 1)))

(***************************************************************************)
(* Keys and fixed strings of the wire protocol.                            *)
(***************************************************************************)
K_model == <<"m", "o", "d", "e", "l">>
K_messages == <<"m", "e", "s", "s", "a", "g", "e", "s">>
K_role == <<"r", "o", "l", "e">>
K_content == <<"c", "o", "n", "t", "e", "n", "t">>
K_stream == <<"s", "t", "r", "e", "a", "m">>
K_system == <<"s", "y", "s", "t", "e", "m">>
K_user == <<"u", "s", "e", "r">>
K_choices == <<"c", "h", "o", "i", "c", "e", "s">>
K_delta == <<"d", "e", "l", "t", "a">>
K_message == <<"m", "e", "s", "s", "a", "g", "e">>
K_error == <<"e", "r", "r", "o", "r">>
K_usage == <<"u", "s", "a", "g", "e">>
K_prompt_tokens == <<"p", "r", "o", "m", "p", "t", "_", "t", "o", "k", "e", "n", "s">>
K_completion_tokens ==
    <<"c", "o", "m", "p", "l", "e", "t", "i", "o", "n", "_", "t", "o", "k", "e", "n", "s">>
K_total_tokens == <<"t", "o", "t", "a", "l", "_", "t", "o", "k", "e", "n", "s">>
DataPrefix == <<"d", "a", "t", "a", ":", " ">>

(***************************************************************************)
(* The state of one invocation.                                            *)
(***************************************************************************)
VARIABLES
    pc,             \* where main is
    argv,           \* the command line: options, and the question argument
    flags,          \* print_config, show_tokens, echo_input, dry_run, store_forward
    user_question,  \* the question string
    env,            \* the configuration the file system provides
    config,         \* api_config_t, or NULL
    request_params, \* chat_request_params_t
    stream_enabled, \* main's stream_enabled, the stream argument of the builder
    request_json,   \* the payload, or NULL
    server,         \* what the remote end answers: status and body
    ctx,            \* stream_context_t of the streaming request
    wire,           \* response bytes the transport has not delivered yet
    nchunks,        \* write callbacks made so far
    curl_res,       \* the transfer's CURLcode so far
    calls,          \* the requests handed to the transport, in order
    stdout,         \* the segments written to standard output, in order
    stderr,         \* the messages written to standard error, in order
    exit_status,    \* the process exit status, -1 while running
    fs,             \* HOME, the readable files and their lines, where they are looked at
    stdin,          \* standard input, where it is read: its length, its first zero byte
    reader          \* read_stdin: capacity, size and what was written to buffer

vars == <<pc, argv, flags, user_question, env, config, request_params, stream_enabled,
          request_json, server, ctx, wire, nchunks, curl_res, calls, stdout, stderr,
          exit_status, fs, stdin, reader>>

EXIT_SUCCESS == 0
EXIT_FAILURE == 1
Running == 0 - 1

(***************************************************************************)
(* Request builder.                                                        *)
(***************************************************************************)
\* Faulty variants of construct_request_json, each with one deliberate
\* defect: the custom prompt is ignored; the stream flag is ignored (the
\* payload always says false); the user message comes first.
construct_request_json_ConfigPrompt(cfg, params, stream) ==
    IF cfg.model_name = NULL \/ cfg.system_prompt = NULL \/ params.user_query = NULL THEN NULL
    ELSE cJSON_PrintUnformatted(JObj(
             << <<K_model, JStr(cfg.model_name)>>,
                <<K_messages,
                  JArr(<<JObj(<< <<K_role, JStr(K_system)>>,
                                 <<K_content, JStr(cfg.system_prompt)>> >>),
                         JObj(<< <<K_role, JStr(K_user)>>,
                                 <<K_content, JStr(params.user_query)>> >>)>>)>>,
                <<K_stream, IF stream THEN JTrue ELSE JFalse>> >>))

construct_request_json_StreamFalse(cfg, params, stream) ==
    LET prompt == IF params.custom_prompt # NULL THEN params.custom_prompt
                  ELSE cfg.system_prompt
    IN  IF cfg.model_name = NULL \/ prompt = NULL \/ params.user_query = NULL THEN NULL
        ELSE cJSON_PrintUnformatted(JObj(
                 << <<K_model, JStr(cfg.model_name)>>,
                    <<K_messages,
                      JArr(<<JObj(<< <<K_role, JStr(K_system)>>, <<K_content, JStr(prompt)>> >>),
                             JObj(<< <<K_role, JStr(K_user)>>,
                                     <<K_content, JStr(params.user_query)>> >>)>>)>>,
                    <<K_stream, JFalse>> >>))

construct_request_json_UserFirst(cfg, params, stream) ==
    LET prompt == IF params.custom_prompt # NULL THEN params.custom_prompt
                  ELSE cfg.system_prompt
    IN  IF cfg.model_name = NULL \/ prompt = NULL \/ params.user_query = NULL THEN NULL
        ELSE cJSON_PrintUnformatted(JObj(
                 << <<K_model, JStr(cfg.model_name)>>,
                    <<K_messages,
                      JArr(<<JObj(<< <<K_role, JStr(K_user)>>,
                                     <<K_content, JStr(params.user_query)>> >>),
                             JObj(<< <<K_role, JStr(K_system)>>, <<K_content, JStr(prompt)>> >>)>>)>>,
                    <<K_stream, IF stream THEN JTrue ELSE JFalse>> >>))

\* construct_request_json: cJSON_AddStringToObject fails on a null string,
\* and the builder then returns NULL.
construct_request_json(cfg, params, stream) ==
    LET prompt == IF params.custom_prompt # NULL THEN params.custom_prompt
                  ELSE cfg.system_prompt
        system_message == JObj(<< <<K_role, JStr(K_system)>>, <<K_content, JStr(prompt)>> >>)
        user_message == JObj(<< <<K_role, JStr(K_user)>>,
                                <<K_content, JStr(params.user_query)>> >>)
        root_object == JObj(<< <<K_model, JStr(cfg.model_name)>>,
                               <<K_messages, JArr(<<system_message, user_message>>)>>,
                               <<K_stream, IF stream THEN JTrue ELSE JFalse>> >>)
    IN  IF cfg.model_name = NULL \/ prompt = NULL \/ params.user_query = NULL THEN NULL
        ELSE cJSON_PrintUnformatted(root_object)

(***************************************************************************)
(* Buffered response parser.                                               *)
(***************************************************************************)
\* A null pointer to a structure.
NullStruct == [null |-> TRUE]

\* The bytes of a buffer read as a C string.
CStr(s) == SubSeq(s, 1, CStrEnd(s, 1) - 1)

\* item->valueint: the integer of a number item, 0 for every other item.
ValueInt(item) == IF item.t = "number" THEN item.v ELSE 0

\* A faulty variant of TokenCount: every counter is read from total_tokens.
TokenCount_Total(usage_object, key) ==
    IF cJSON_GetObjectItem(usage_object, K_total_tokens) # JNone
    THEN ValueInt(cJSON_GetObjectItem(usage_object, K_total_tokens))
    ELSE 0

\* The token count read from a member of the usage object.
TokenCount(usage_object, key) ==
    IF cJSON_GetObjectItem(usage_object, key) # JNone
    THEN ValueInt(cJSON_GetObjectItem(usage_object, key))
    ELSE 0

ParseError(text) == [res |-> NullStruct, err |-> <<[k |-> text, s |-> <<>>]>>]

\* parse_chat_response from strdup on: the result with its token counts.
ChatResult(content_object, usage_object) ==
    [res |-> [content |-> content_object.v,
              input_token_count |->
                  IF usage_object # JNone THEN TokenCount(usage_object, K_prompt_tokens) ELSE 0,
              output_token_count |->
                  IF usage_object # JNone THEN TokenCount(usage_object, K_completion_tokens) ELSE 0,
              total_token_count |->
                  IF usage_object # JNone THEN TokenCount(usage_object, K_total_tokens) ELSE 0],
     err |-> <<>>]

\* A faulty variant of ChatContent: content that is not a string gives a
\* result with empty content.
ChatContent_Lenient(root_object, content_object) ==
    IF ~cJSON_IsString(content_object)
    THEN ChatResult(JStr(<<>>), cJSON_GetObjectItem(root_object, K_usage))
    ELSE ChatResult(content_object, cJSON_GetObjectItem(root_object, K_usage))

\* parse_chat_response once choices[0].message.content was looked up.
ChatContent(root_object, content_object) ==
    IF ~cJSON_IsString(content_object) THEN ParseError("Invalid content format")
    ELSE ChatResult(content_object, cJSON_GetObjectItem(root_object, K_usage))

\* parse_chat_response once choices was looked up.
ChatChoices(root_object, choices_array) ==
    IF ~cJSON_IsArray(choices_array) \/ cJSON_GetArraySize(choices_array) = 0
    THEN ParseError("Invalid choices array")
    ELSE ChatContent(root_object,
                     cJSON_GetObjectItem(
                         cJSON_GetObjectItem(cJSON_GetArrayItem(choices_array, 0), K_message),
                         K_content))

\* The message parse_chat_response reports for an error object.
ApiErrorText(error_message) ==
    IF cJSON_IsString(error_message) THEN error_message.v ELSE <<"Unknown error">>

\* A faulty variant of ChatError: a body with a choices array is read as an
\* answer although it carries an error.
ChatError_ChoicesFirst(root_object, error_object) ==
    IF error_object # JNone /\ ~cJSON_IsArray(cJSON_GetObjectItem(root_object, K_choices))
    THEN [res |-> NullStruct,
          err |-> <<[k |-> "API error",
                     s |-> ApiErrorText(cJSON_GetObjectItem(error_object, K_message))]>>]
    ELSE ChatChoices(root_object, cJSON_GetObjectItem(root_object, K_choices))

\* parse_chat_response once error was looked up.
ChatError(root_object, error_object) ==
    IF error_object # JNone
    THEN [res |-> NullStruct,
          err |-> <<[k |-> "API error",
                     s |-> ApiErrorText(cJSON_GetObjectItem(error_object, K_message))]>>]
    ELSE ChatChoices(root_object, cJSON_GetObjectItem(root_object, K_choices))

\* parse_chat_response once the payload was decoded.
ChatRoot(root_object) ==
    IF root_object = JNone THEN ParseError("JSON parsing failed")
    ELSE ChatError(root_object, cJSON_GetObjectItem(root_object, K_error))

\* parse_chat_response: res is the chat_response_t or the null pointer, err
\* the messages written to standard error.
parse_chat_response(http_res) ==
    IF http_res = NullStruct THEN ParseError("Received empty response")
    ELSE IF http_res.payload = NULL THEN ParseError("Received empty response")
    ELSE ChatRoot(cJSON_Parse(CStr(http_res.payload)))

(***************************************************************************)
(* Streaming decoder.                                                      *)
(***************************************************************************)
\* sizeof(ctx->buffer)
StreamBufferSize == 4096

\* The printf of process_stream_data: the argument list of the call, empty
\* when the call is not made.
PrintContent(content) == IF cJSON_IsString(content) THEN <<content.v>> ELSE <<>>

PrintDelta(delta) ==
    IF delta # JNone THEN PrintContent(cJSON_GetObjectItem(delta, K_content)) ELSE <<>>

PrintChoices(choices) ==
    IF cJSON_IsArray(choices) /\ cJSON_GetArraySize(choices) > 0
    THEN PrintDelta(cJSON_GetObjectItem(cJSON_GetArrayItem(choices, 0), K_delta))
    ELSE <<>>

PrintRoot(root) ==
    IF root # JNone THEN PrintChoices(cJSON_GetObjectItem(root, K_choices)) ELSE <<>>

\* The line without a leading "data: ".
StripDataPrefix(line) ==
    IF Len(line) >= 6 /\ SubSeq(line, 1, 6) = DataPrefix THEN SubSeq(line, 7, Len(line))
    ELSE line

\* What one complete line makes process_stream_data print.
LineOutput(line) == PrintRoot(cJSON_Parse(StripDataPrefix(line)))

\* A faulty variant of NextNewline: the end of the buffer counts as the end
\* of a line.
NextNewline_OrEnd(buffer, line_start) ==
    IF line_start > Len(buffer) THEN 0
    ELSE Min({j \in line_start..Len(buffer) : buffer[j] = LF} \cup {Len(buffer) + 1})

\* strchr(line_start, '\n'): the position of the first newline at or after
\* line_start and before the first zero byte, 0 when there is none.
NextNewline(buffer, line_start) ==
    Min({j \in line_start..(CStrEnd(buffer, line_start) - 1) : buffer[j] = LF} \cup {Len(buffer) + 1})
    % (Len(buffer) + 1)

RECURSIVE ProcessLines(_, _, _)

\* A faulty variant of ProcessLine: a line that prints nothing ends the loop
\* and stays in the buffer.
ProcessLine_StopOnBadLine(buffer, line_start, printed, line_end) ==
    IF line_end = 0 THEN [line_start |-> line_start, printed |-> printed]
    ELSE LET out == LineOutput(SubSeq(buffer, line_start, line_end - 1))
         IN  IF out = <<>> THEN [line_start |-> line_start, printed |-> printed]
             ELSE ProcessLines(buffer, line_end + 1, printed \o out)

\* One round of the while loop of process_stream_data.
ProcessLine(buffer, line_start, printed, line_end) ==
    IF line_end = 0 THEN [line_start |-> line_start, printed |-> printed]
    ELSE ProcessLines(buffer, line_end + 1,
                      printed \o LineOutput(SubSeq(buffer, line_start, line_end - 1)))

\* The while loop of process_stream_data: line_start (1-based) is where the
\* next line begins, printed what the lines before it made the loop print.
ProcessLines(buffer, line_start, printed) ==
    ProcessLine(buffer, line_start, printed, NextNewline(buffer, line_start))

\* A faulty variant of MoveRemaining: the buffer is emptied after every
\* call, so an unfinished line is lost.
MoveRemaining_Discard(c, r) ==
    [ctx |-> [c EXCEPT !.buffer = <<>>, !.buffer_len = 0], printed |-> r.printed]

\* The memmove of process_stream_data: the bytes from line_start on move to
\* the front of the buffer.
MoveRemaining(c, r) ==
    [ctx |-> [c EXCEPT !.buffer = SubSeq(c.buffer, r.line_start, c.buffer_len),
                       !.buffer_len = c.buffer_len - (r.line_start - 1)],
     printed |-> r.printed]

\* process_stream_data: the context after the call, and what it printed.
process_stream_data(c) == MoveRemaining(c, ProcessLines(c.buffer, 1, <<>>))

\* A faulty variant of StreamOverflow: no room is kept for the terminator.
StreamOverflow_Exceeds(buffer_len, data_size) == buffer_len + data_size > StreamBufferSize

\* A faulty variant of StreamOverflow: the bytes already pending are not counted.
StreamOverflow_ChunkOnly(buffer_len, data_size) == data_size >= StreamBufferSize

\* The overflow test of stream_data_callback.
StreamOverflow(buffer_len, data_size) == buffer_len + data_size >= StreamBufferSize

\* The memcpy of stream_data_callback.
AppendChunk(c, chunk) ==
    [c EXCEPT !.buffer = c.buffer \o chunk, !.buffer_len = c.buffer_len + Len(chunk)]

Accepted(done, data_size) ==
    [ctx |-> done.ctx, ret |-> data_size, printed |-> done.printed, err |-> <<>>]

\* A faulty variant of stream_data_callback: on overflow it stores the part
\* of the chunk that fits before it reports the failure.
stream_data_callback_Partial(c, chunk) ==
    IF StreamOverflow(c.buffer_len, Len(chunk))
    THEN [ctx |-> AppendChunk(c, SubSeq(chunk, 1, StreamBufferSize - 1 - c.buffer_len)),
          ret |-> 0, printed |-> <<>>,
          err |-> <<[k |-> "Stream buffer overflow", s |-> <<>>]>>]
    ELSE Accepted(process_stream_data(AppendChunk(c, chunk)), Len(chunk))

\* stream_data_callback: the context after the call, the value returned to
\* the transport, what was printed, and what went to standard error.
stream_data_callback(c, chunk) ==
    IF StreamOverflow(c.buffer_len, Len(chunk))
    THEN [ctx |-> c, ret |-> 0, printed |-> <<>>,
          err |-> <<[k |-> "Stream buffer overflow", s |-> <<>>]>>]
    ELSE Accepted(process_stream_data(AppendChunk(c, chunk)), Len(chunk))

(***************************************************************************)
(* Transport.                                                              *)
(***************************************************************************)
\* sizeof(auth_header)
AuthHeaderSize == 256
\* CURLOPT_TIMEOUT of perform_http_post, in seconds
RequestTimeout == 30
\* A transfer handle on which CURLOPT_TIMEOUT was never set.
NoTimeout == 0
HTTP_OK == 200

AuthPrefix == <<"A", "u", "t", "h", "o", "r", "i", "z", "a", "t", "i", "o", "n", ":", " ",
                "B", "e", "a", "r", "e", "r", " ">>
ContentTypeHeader == <<"C", "o", "n", "t", "e", "n", "t", "-", "T", "y", "p", "e", ":", " ",
                       "a", "p", "p", "l", "i", "c", "a", "t", "i", "o", "n", "/",
                       "j", "s", "o", "n">>

\* snprintf(auth_header, sizeof(auth_header), "Authorization: Bearer %s", api_key):
\* the return value, and the bytes left in the buffer.
AuthHeaderLength(api_key) == Len(AuthPrefix) + Len(api_key)
AuthHeader(api_key) ==
    SubSeq(AuthPrefix \o api_key, 1,
           IF AuthHeaderLength(api_key) < AuthHeaderSize THEN AuthHeaderLength(api_key)
           ELSE AuthHeaderSize - 1)

\* The request perform_http_post hands to the transport.
BufferedCall(cfg, payload) ==
    [fn |-> "perform_http_post", url |-> cfg.base_url,
     headers |-> <<ContentTypeHeader, AuthHeader(cfg.api_key)>>,
     body |-> payload, timeout |-> RequestTimeout, sink |-> "curl_data_writer"]

\* The request execute_streaming_request hands to the transport.
StreamingCall(cfg, payload) ==
    [fn |-> "execute_streaming_request", url |-> cfg.base_url,
     headers |-> <<ContentTypeHeader, AuthHeader(cfg.api_key)>>,
     body |-> payload, timeout |-> NoTimeout, sink |-> "stream_data_callback"]

\* execute_chat_request, given what the transfer does: t.res is the CURLcode,
\* t.status the HTTP status, t.body the bytes curl_data_writer accumulated
\* (payload stays NULL when the writer was never called).  res is the
\* http_response_t or the null pointer, sent tells whether a request left.
execute_chat_request(cfg, payload, t) ==
    IF AuthHeaderLength(cfg.api_key) >= AuthHeaderSize
    THEN [res |-> NullStruct, sent |-> FALSE,
          err |-> <<[k |-> "Authorization header truncated", s |-> <<>>]>>]
    ELSE IF t.res # "CURLE_OK"
    THEN [res |-> NullStruct, sent |-> t.res # "CURLE_FAILED_INIT",
          err |-> <<[k |-> "HTTP request failed", s |-> <<>>]>>]
    ELSE IF t.status # HTTP_OK
    THEN [res |-> NullStruct, sent |-> TRUE,
          err |-> <<[k |-> "HTTP error", s |-> t.body]>>]
    ELSE [res |-> [payload |-> IF t.body = <<>> THEN NULL ELSE t.body,
                   payload_size |-> Len(t.body), status_code |-> t.status],
          sent |-> TRUE, err |-> <<>>]

(***************************************************************************)
(* Inputs of the model: command lines, configurations, server answers.     *)
(***************************************************************************)
\* Bounds of the model.
MaxStrLen == 2      \* longest string given to the request builder alone
MaxChunks == 3      \* write callbacks of one transfer
FineWindow == 50    \* leading bytes of a response that are cut at every position

S_hi == <<"h", "i">>
S_m == <<"m">>
S_sys == <<"s", "y", "s">>
S_k == <<"k">>
S_url == <<"h", "t", "t", "p", "s", ":", "/", "/", "e", "x", "a", "m", "p", "l", "e", "/",
           "a", "p", "i">>

\* All byte strings over the alphabet A of length at most n.
RECURSIVE StringsUpTo(_, _)
StringsUpTo(A, n) ==
    IF n = 0 THEN {<<>>}
    ELSE LET shorter == StringsUpTo(A, n - 1)
         IN  shorter \cup {Append(w, c) : w \in shorter, c \in A}

\* Bytes the serializer must escape, and one it must not.
BuilderAlphabet == {"h", QUOTE, BSL, LF}

Options == {"p", "j", "t", "e", "s"}

\* argv: the option letters given, whether option parsing stops at -h or at an
\* unknown option, and the first non-option argument (NULL when there is none).
Argvs ==
    [opts : SUBSET Options, stop : {"none", "help", "bad"},
     question : {NULL, S_hi}]

FullConfig == [api_key |-> S_k, base_url |-> S_url, model_name |-> S_m, system_prompt |-> S_sys]

\* What the file system holds: the path locate_config_file finds (NULL when no
\* candidate is readable) and what load_configuration makes of the file.
Envs ==
    {[path |-> NULL, loaded |-> NullStruct],
     [path |-> <<".adsenv">>, loaded |-> NullStruct],
     [path |-> <<".adsenv">>, loaded |-> FullConfig],
     [path |-> <<".adsenv">>, loaded |-> [FullConfig EXCEPT !.api_key = NULL]],
     [path |-> <<".adsenv">>, loaded |-> [FullConfig EXCEPT !.base_url = NULL]]}

\* Response bodies of the buffered mode.
ChatBody(content, usage) ==
    cJSON_PrintUnformatted(JObj(
        << <<K_choices, JArr(<<JObj(<< <<K_message, JObj(<< <<K_content, content>> >>)>> >>)>>)>> >>
        \o usage))

Usage3 == << <<K_usage, JObj(<< <<K_prompt_tokens, JNum(10)>>,
                                <<K_completion_tokens, JNum(5)>>,
                                <<K_total_tokens, JNum(15)>> >>)>> >>
Usage1 == << <<K_usage, JObj(<< <<K_completion_tokens, JNum(5)>> >>)>> >>
Usage2 == << <<K_usage, JObj(<< <<K_prompt_tokens, JNum(10)>>,
                                <<K_total_tokens, JNum(15)>> >>)>> >>
Usage0 == << <<K_usage, JObj(<<>>)>> >>

ErrorBody(msg) ==
    cJSON_PrintUnformatted(JObj(<< <<K_error, JObj(<< <<K_message, JStr(msg)>> >>)>> >>))

S_bad == <<"b", "a", "d">>
S_Hello == <<"H", "e", "l", "l", "o">>

\* Bodies with an error member of each kind, alone and next to an answer.
ErrorWithAnswer ==
    cJSON_PrintUnformatted(JObj(
        << <<K_error, JObj(<< <<K_message, JStr(S_bad)>> >>)>>,
           <<K_choices,
             JArr(<<JObj(<< <<K_message, JObj(<< <<K_content, JStr(S_Hello)>> >>)>> >>)>>)>> >>
        \o Usage3))
ErrorNumberMessage ==
    cJSON_PrintUnformatted(JObj(<< <<K_error, JObj(<< <<K_message, JNum(7)>> >>)>> >>))
ErrorString == cJSON_PrintUnformatted(JObj(<< <<K_error, JStr(S_bad)>> >>))
AnswerWithNullError ==
    cJSON_PrintUnformatted(JObj(
        << <<K_choices,
             JArr(<<JObj(<< <<K_message, JObj(<< <<K_content, JStr(S_Hello)>> >>)>> >>)>>)>>,
           <<K_error, JNull>> >>))

BufferedBodies ==
    {<<>>,
     <<"<", "h", "t", "m", "l", ">">>,
     ChatBody(JStr(S_Hello), Usage3),
     ChatBody(JStr(S_Hello), Usage1),
     ChatBody(JStr(S_Hello), Usage2),
     ChatBody(JStr(S_Hello), Usage0),
     ChatBody(JStr(S_Hello), <<>>),
     ChatBody(JNum(7), Usage3),
     ChatBody(JStr(<<>>), <<>>),
     cJSON_PrintUnformatted(JObj(<< <<K_choices, JArr(<<JNum(7)>>)>> >>)),
     cJSON_PrintUnformatted(JObj(<< <<K_choices, JObj(<<>>)>> >>)),
     ErrorBody(S_bad),
     ErrorWithAnswer,
     ErrorNumberMessage,
     ErrorString,
     AnswerWithNullError,
     cJSON_PrintUnformatted(JObj(<< <<K_error, JObj(<<>>)>> >>)),
     cJSON_PrintUnformatted(JObj(<< <<K_choices, JArr(<<>>)>> >>)),
     cJSON_PrintUnformatted(JObj(<< <<K_usage, JObj(<<>>)>> >>))}

\* What a buffered transfer can do.
BufferedTransfers ==
    [res : {"CURLE_OK"}, status : {HTTP_OK, 401}, body : BufferedBodies]
    \cup [res : {"CURLE_FAILED_INIT", "CURLE_COULDNT_CONNECT", "CURLE_OPERATION_TIMEDOUT"},
          status : {0}, body : {<<>>}]

\* Lines of a streamed response.
Event(content) ==
    cJSON_PrintUnformatted(JObj(
        << <<K_choices, JArr(<<JObj(<< <<K_delta, JObj(<< <<K_content, content>> >>)>> >>)>>)>> >>))

S_lo == <<"l", "o">>
EventHello == DataPrefix \o Event(JStr(S_Hello)) \o <<LF>>
EventQuote == DataPrefix \o Event(JStr(<<QUOTE, BSL>>)) \o <<LF>>
EventLo == Event(JStr(S_lo)) \o <<LF>>
EventEsc == Event(JStr(<<QUOTE, LF>>)) \o <<"\r", LF>>
EventRole ==
    DataPrefix
    \o cJSON_PrintUnformatted(JObj(
           << <<K_choices, JArr(<<JObj(<< <<K_delta, JObj(<< <<K_role, JStr(K_user)>> >>)>> >>)>>)>> >>))
    \o <<LF>>
EventNumber == Event(JNum(7)) \o <<LF>>
DoneLine == DataPrefix \o <<"[", "D", "O", "N", "E", "]", LF>>
KeepAlive == <<":", " ", "k", LF>>
ErrorLine == ErrorBody(S_bad) \o <<LF>>

\* Four lines of 1023 bytes each, 4096 bytes with their newlines.
ShortLines == Concat([i \in 1..4 |-> Pad("x", 1023) \o <<LF>>])

\* Responses for the decoder alone.
DecoderBodies ==
    {EventHello,
     EventQuote,
     EventLo \o EventLo,
     EventEsc,
     <<LF>> \o KeepAlive \o EventLo,
     EventRole \o DoneLine,
     EventNumber \o DoneLine \o EventLo,
     EventLo \o SubSeq(EventLo, 1, Len(EventLo) - 1),
     ErrorLine,
     <<NUL, LF>> \o EventLo,
     EventLo \o <<"a", NUL, "b", LF>> \o EventLo,
     Pad("x", StreamBufferSize + 1),
     EventLo \o Pad("x", StreamBufferSize - 2) \o <<LF>>,
     EventLo \o Pad("x", StreamBufferSize + 1),
     ShortLines}

DecoderServers == [status : {HTTP_OK}, body : DecoderBodies]

\* Answers for the whole program: a streamed answer, an empty one, one that
\* overflows the stream buffer, and rejections with an error envelope.
StreamServers ==
    {[status |-> HTTP_OK, body |-> EventLo],
     [status |-> HTTP_OK, body |-> <<>>],
     [status |-> HTTP_OK, body |-> Pad("x", StreamBufferSize)],
     [status |-> 401, body |-> ErrorBody(S_bad)],
     [status |-> 401, body |-> ErrorLine]}

\* The sizes the transport may give the next chunk: every cut inside the
\* first FineWindow bytes of the response, the whole rest, and the sizes
\* around the buffer size.
ChunkSizes(body, left) ==
    {k \in 1..Len(left) :
        \/ (Len(body) - Len(left)) + k <= FineWindow
        \/ k = Len(left)
        \/ k \in (StreamBufferSize - 2)..StreamBufferSize}

(***************************************************************************)
(* main.                                                                   *)
(***************************************************************************)
Msg(text) == [k |-> text, s |-> <<>>]

NoFlags ==
    [print_config |-> FALSE, show_tokens |-> FALSE, echo_input |-> FALSE,
     dry_run |-> FALSE, store_forward |-> FALSE]
NoParams == [user_query |-> NULL, custom_prompt |-> NULL]
NoServer == [status |-> 0, body |-> <<>>]
NoContext == [buffer |-> <<>>, buffer_len |-> 0, show_tokens |-> FALSE]

\* main returns, or exit is called.
Exit(status) == pc' = "exited" /\ exit_status' = status

\* The state main starts in.
Init ==
    /\ pc = "parse_cli_arguments"
    /\ argv \in Argvs
    /\ env \in Envs
    /\ flags = NoFlags
    /\ user_question = NULL
    /\ config = NullStruct
    /\ request_params = NoParams
    /\ stream_enabled = FALSE
    /\ request_json = NULL
    /\ server = NoServer
    /\ ctx = NoContext
    /\ wire = <<>>
    /\ nchunks = 0
    /\ curl_res = "none"
    /\ calls = <<>>
    /\ stdout = <<>>
    /\ stderr = <<>>
    /\ exit_status = Running
    /\ fs = NullStruct /\ stdin = NullStruct /\ reader = NullStruct

\* parse_cli_arguments, with the exits of show_usage.
ParseCliArguments ==
    /\ pc = "parse_cli_arguments"
    /\ IF argv.stop = "help"
       THEN /\ stdout' = Append(stdout, Msg("Usage"))
            /\ Exit(EXIT_SUCCESS)
            /\ UNCHANGED <<flags, user_question, stderr>>
       ELSE IF argv.stop = "bad"
       THEN /\ stderr' = Append(stderr, Msg("Usage"))
            /\ Exit(EXIT_FAILURE)
            /\ UNCHANGED <<flags, user_question, stdout>>
       ELSE IF argv.question = NULL
       THEN /\ stderr' = stderr \o <<Msg("Missing required question parameter"), Msg("Usage")>>
            /\ Exit(EXIT_FAILURE)
            /\ UNCHANGED <<flags, user_question, stdout>>
       ELSE /\ flags' = [print_config |-> "p" \in argv.opts,
                         show_tokens |-> "t" \in argv.opts,
                         echo_input |-> "e" \in argv.opts,
                         dry_run |-> "j" \in argv.opts,
                         store_forward |-> "s" \in argv.opts]
            /\ user_question' = argv.question
            /\ pc' = "config"
            /\ UNCHANGED <<stdout, stderr, exit_status>>
    /\ UNCHANGED <<argv, env, config, request_params, stream_enabled, request_json, server,
                   ctx, wire, nchunks, curl_res, calls>>
    /\ UNCHANGED <<fs, stdin, reader>>

\* main with print_config set: locate, load and dump the configuration.
PrintConfiguration ==
    /\ pc = "config"
    /\ flags.print_config
    /\ IF env.path = NULL
       THEN /\ stderr' = Append(stderr, Msg("Configuration file not found"))
            /\ Exit(EXIT_FAILURE)
            /\ UNCHANGED stdout
       ELSE IF env.loaded = NullStruct
       THEN /\ stderr' = Append(stderr, Msg("Failed to load configuration"))
            /\ Exit(EXIT_FAILURE)
            /\ UNCHANGED stdout
       ELSE /\ stdout' = Append(stdout, [k |-> "configuration", s |-> env.loaded.model_name])
            /\ Exit(EXIT_SUCCESS)
            /\ UNCHANGED stderr
    /\ UNCHANGED <<argv, flags, user_question, env, config, request_params, stream_enabled,
                   request_json, server, ctx, wire, nchunks, curl_res, calls>>
    /\ UNCHANGED <<fs, stdin, reader>>

\* A faulty variant of LoadConfiguration: the required fields are not checked.
LoadConfiguration_NoFieldCheck ==
    /\ pc = "config"
    /\ ~flags.print_config
    /\ IF env.path = NULL
       THEN /\ stderr' = Append(stderr, Msg("Configuration file not found"))
            /\ Exit(EXIT_FAILURE)
            /\ UNCHANGED config
       ELSE IF env.loaded = NullStruct
       THEN /\ stderr' = Append(stderr, Msg("Invalid configuration parameters"))
            /\ Exit(EXIT_FAILURE)
            /\ UNCHANGED config
       ELSE /\ config' = env.loaded
            /\ pc' = "build"
            /\ UNCHANGED <<stderr, exit_status>>
    /\ UNCHANGED <<argv, flags, user_question, env, request_params, stream_enabled,
                   request_json, server, ctx, wire, nchunks, curl_res, calls, stdout>>
    /\ UNCHANGED <<fs, stdin, reader>>

\* main: locate and load the configuration, and check its required fields.
LoadConfiguration ==
    /\ pc = "config"
    /\ ~flags.print_config
    /\ IF env.path = NULL
       THEN /\ stderr' = Append(stderr, Msg("Configuration file not found"))
            /\ Exit(EXIT_FAILURE)
            /\ UNCHANGED config
       ELSE IF \/ env.loaded = NullStruct
               \/ env.loaded.api_key = NULL
               \/ env.loaded.base_url = NULL
       THEN /\ stderr' = Append(stderr, Msg("Invalid configuration parameters"))
            /\ Exit(EXIT_FAILURE)
            /\ UNCHANGED config
       ELSE /\ config' = env.loaded
            /\ pc' = "build"
            /\ UNCHANGED <<stderr, exit_status>>
    /\ UNCHANGED <<argv, flags, user_question, env, request_params, stream_enabled,
                   request_json, server, ctx, wire, nchunks, curl_res, calls, stdout>>
    /\ UNCHANGED <<fs, stdin, reader>>

\* What main has printed once the input is echoed.
Echoed == IF flags.echo_input THEN Append(stdout, [k |-> "echo", s |-> user_question])
          ELSE stdout

\* A faulty variant of RequestBuilt: the dry run does not stop main.
RequestBuilt_NoDryRun(payload) ==
    /\ request_json' = payload
    /\ IF payload = NULL
       THEN /\ stderr' = Append(stderr, Msg("Failed to construct request JSON"))
            /\ stdout' = Echoed
            /\ Exit(EXIT_FAILURE)
       ELSE /\ stdout' = IF flags.dry_run
                         THEN Append(Echoed, [k |-> "payload", s |-> payload \o <<LF>>])
                         ELSE Echoed
            /\ pc' = "dispatch"
            /\ UNCHANGED <<stderr, exit_status>>

\* main once construct_request_json has returned payload.
RequestBuilt(payload) ==
    /\ request_json' = payload
    /\ IF payload = NULL
       THEN /\ stderr' = Append(stderr, Msg("Failed to construct request JSON"))
            /\ stdout' = Echoed
            /\ Exit(EXIT_FAILURE)
       ELSE IF flags.dry_run
       THEN /\ stdout' = Append(Echoed, [k |-> "payload", s |-> payload \o <<LF>>])
            /\ Exit(EXIT_SUCCESS)
            /\ UNCHANGED stderr
       ELSE /\ stdout' = Echoed
            /\ pc' = "dispatch"
            /\ UNCHANGED <<stderr, exit_status>>

\* main: echo the input, build the payload, and stop there on a dry run.
BuildRequest ==
    /\ pc = "build"
    /\ request_params' = [user_query |-> user_question, custom_prompt |-> NULL]
    /\ stream_enabled' = ~flags.store_forward
    /\ RequestBuilt(construct_request_json(
                        config, [user_query |-> user_question, custom_prompt |-> NULL],
                        ~flags.store_forward))
    /\ UNCHANGED <<argv, flags, user_question, env, config, server, ctx, wire, nchunks,
                   curl_res, calls>>
    /\ UNCHANGED <<fs, stdin, reader>>

\* execute_streaming_request up to curl_easy_perform: the request leaves and
\* the server's answer is what the transport will deliver.  When
\* curl_easy_init fails the function returns -1 at once.
DispatchStreaming ==
    /\ pc = "dispatch"
    /\ stream_enabled
    /\ \/ /\ \E srv \in StreamServers : server' = srv /\ wire' = srv.body
          /\ ctx' = [buffer |-> <<>>, buffer_len |-> 0, show_tokens |-> flags.show_tokens]
          /\ calls' = Append(calls, StreamingCall(config, request_json))
          /\ curl_res' = "pending"
          /\ pc' = "streaming"
          /\ UNCHANGED <<stdout, exit_status>>
       \/ /\ stdout' = Append(stdout, [k |-> "newline", s |-> <<LF>>])
          /\ Exit(EXIT_FAILURE)
          /\ UNCHANGED <<server, wire, ctx, calls, curl_res>>
    /\ UNCHANGED <<argv, flags, user_question, env, config, request_params, stream_enabled,
                   request_json, nchunks, stderr>>
    /\ UNCHANGED <<fs, stdin, reader>>

\* A faulty variant of ChunkDelivered: the transfer goes on after a callback
\* has refused its chunk.
ChunkDelivered_Recovers(k, r) ==
    /\ ctx' = r.ctx
    /\ stdout' = stdout \o [i \in 1..Len(r.printed) |-> [k |-> "delta", s |-> r.printed[i]]]
    /\ stderr' = stderr \o r.err
    /\ wire' = SubSeq(wire, k + 1, Len(wire))
    /\ curl_res' = curl_res

\* The effect of a write callback that was handed the next k bytes of the
\* response and returned r.
ChunkDelivered(k, r) ==
    /\ ctx' = r.ctx
    /\ stdout' = stdout \o [i \in 1..Len(r.printed) |-> [k |-> "delta", s |-> r.printed[i]]]
    /\ stderr' = stderr \o r.err
    /\ wire' = SubSeq(wire, k + 1, Len(wire))
    /\ curl_res' = IF r.ret = k THEN curl_res ELSE "CURLE_WRITE_ERROR"

\* The transport delivers the next chunk to stream_data_callback.  A return
\* value other than the chunk size makes the transfer fail.
StreamDataCallback ==
    /\ pc = "streaming"
    /\ curl_res = "pending"
    /\ nchunks < MaxChunks
    /\ \E k \in ChunkSizes(server.body, wire) :
          ChunkDelivered(k, stream_data_callback(ctx, SubSeq(wire, 1, k)))
    /\ nchunks' = nchunks + 1
    /\ UNCHANGED <<pc, argv, flags, user_question, env, config, request_params, stream_enabled,
                   request_json, server, calls, exit_status>>
    /\ UNCHANGED <<fs, stdin, reader>>

\* The results curl_easy_perform can return now: the write error a callback
\* caused, success once the whole response was delivered, a transport failure
\* at any time.
TransferResults ==
    IF curl_res = "CURLE_WRITE_ERROR" THEN {"CURLE_WRITE_ERROR"}
    ELSE IF wire = <<>> THEN {"CURLE_OK", "CURLE_RECV_ERROR"}
    ELSE {"CURLE_RECV_ERROR"}

\* The exit status main gives the result of execute_streaming_request.
StreamingExit(res) == IF res = "CURLE_OK" THEN EXIT_SUCCESS ELSE EXIT_FAILURE

\* A faulty variant of StreamingDone: a request for token usage makes the
\* streaming request fail.
StreamingDone_TokensAreError ==
    /\ pc = "streaming"
    /\ \E res \in TransferResults :
          /\ curl_res' = res
          /\ stderr' = stderr
                \o (IF res # "CURLE_OK" THEN <<Msg("Request failed")>> ELSE <<>>)
                \o (IF ctx.show_tokens
                    THEN <<Msg("Token usage unavailable in streaming mode")>> ELSE <<>>)
          /\ stdout' = Append(stdout, [k |-> "newline", s |-> <<LF>>])
          /\ Exit(IF ctx.show_tokens THEN EXIT_FAILURE ELSE StreamingExit(res))
    /\ UNCHANGED <<argv, flags, user_question, env, config, request_params, stream_enabled,
                   request_json, server, ctx, wire, nchunks, calls>>
    /\ UNCHANGED <<fs, stdin, reader>>

\* curl_easy_perform returns: the rest of execute_streaming_request, and of main.
StreamingDone ==
    /\ pc = "streaming"
    /\ \E res \in TransferResults :
          /\ curl_res' = res
          /\ stderr' = stderr
                \o (IF res # "CURLE_OK" THEN <<Msg("Request failed")>> ELSE <<>>)
                \o (IF ctx.show_tokens
                    THEN <<Msg("Token usage unavailable in streaming mode")>> ELSE <<>>)
          /\ stdout' = Append(stdout, [k |-> "newline", s |-> <<LF>>])
          /\ Exit(StreamingExit(res))
    /\ UNCHANGED <<argv, flags, user_question, env, config, request_params, stream_enabled,
                   request_json, server, ctx, wire, nchunks, calls>>
    /\ UNCHANGED <<fs, stdin, reader>>

\* A faulty variant of BufferedExit: the buffered branch fails after its output.
BufferedExit_Failure(chat_response) == EXIT_FAILURE

\* The exit status of the buffered branch of main, given the parse result.
BufferedExit(chat_response) == EXIT_SUCCESS

\* What the buffered branch of main prints for a parse result.
BufferedOutput(chat_response, show_tokens) ==
    IF chat_response # NullStruct
    THEN <<[k |-> "answer", s |-> chat_response.content \o <<LF>>]>>
         \o (IF show_tokens
             THEN <<[k |-> "tokens",
                     s |-> PrintNumber(chat_response.input_token_count) \o <<" ">>
                           \o PrintNumber(chat_response.output_token_count) \o <<" ">>
                           \o PrintNumber(chat_response.total_token_count)]>>
             ELSE <<>>)
    ELSE <<>>

\* The buffered branch of main once parse_chat_response has returned.
ResponseParsed(parsed) ==
    /\ stdout' = stdout \o BufferedOutput(parsed.res, flags.show_tokens)
    /\ stderr' = stderr \o parsed.err
          \o (IF parsed.res = NullStruct THEN <<Msg("Failed to get valid response")>>
              ELSE <<>>)
    /\ Exit(BufferedExit(parsed.res))

\* A faulty variant of ResponseReceived: a failed request is tried again.
ResponseReceived_Retry(http) ==
    /\ calls' = IF http.sent THEN Append(calls, BufferedCall(config, request_json)) ELSE calls
    /\ IF http.res = NullStruct
       THEN /\ stderr' = stderr \o http.err
            /\ pc' = "dispatch"
            /\ UNCHANGED <<stdout, exit_status>>
       ELSE ResponseParsed(parse_chat_response(http.res))

\* The buffered branch of main once execute_chat_request has returned.
ResponseReceived(http) ==
    /\ calls' = IF http.sent THEN Append(calls, BufferedCall(config, request_json)) ELSE calls
    /\ IF http.res = NullStruct
       THEN /\ stderr' = stderr \o http.err
            /\ Exit(EXIT_FAILURE)
            /\ UNCHANGED stdout
       ELSE ResponseParsed(parse_chat_response(http.res))

\* The buffered branch of main: execute_chat_request, parse_chat_response,
\* the answer and the token summary.
BufferedRequest ==
    /\ pc = "dispatch"
    /\ ~stream_enabled
    /\ \E t \in BufferedTransfers :
          /\ server' = [status |-> t.status, body |-> t.body]
          /\ curl_res' = t.res
          /\ ResponseReceived(execute_chat_request(config, request_json, t))
    /\ UNCHANGED <<argv, flags, user_question, env, config, request_params, stream_enabled,
                   request_json, ctx, wire, nchunks>>
    /\ UNCHANGED <<fs, stdin, reader>>

Next ==
    \/ ParseCliArguments
    \/ PrintConfiguration
    \/ LoadConfiguration
    \/ BuildRequest
    \/ DispatchStreaming
    \/ StreamDataCallback
    \/ StreamingDone
    \/ BufferedRequest

Spec == Init /\ [][Next]_vars

(***************************************************************************)
(* The streaming decoder alone: a streaming request that has just left,    *)
(* with a wider choice of responses.                                       *)
(***************************************************************************)
InitStream ==
    /\ pc = "streaming"
    /\ argv = [opts |-> {}, stop |-> "none", question |-> S_hi]
    /\ env = [path |-> <<".adsenv">>, loaded |-> FullConfig]
    /\ flags = NoFlags
    /\ user_question = S_hi
    /\ config = FullConfig
    /\ request_params = [user_query |-> S_hi, custom_prompt |-> NULL]
    /\ stream_enabled = TRUE
    /\ request_json = construct_request_json(config, request_params, TRUE)
    /\ server \in DecoderServers
    /\ ctx = NoContext
    /\ wire = server.body
    /\ nchunks = 0
    /\ curl_res = "pending"
    /\ calls = <<StreamingCall(config, request_json)>>
    /\ stdout = <<>>
    /\ stderr = <<>>
    /\ exit_status = Running
    /\ fs = NullStruct /\ stdin = NullStruct /\ reader = NullStruct

NextStream == StreamDataCallback \/ StreamingDone

SpecStream == InitStream /\ [][NextStream]_vars

(***************************************************************************)
(* The request builder alone, on every input of a bounded set.             *)
(***************************************************************************)
InitBuild ==
    /\ pc = "construct_request_json"
    /\ argv = [opts |-> {}, stop |-> "none", question |-> NULL]
    /\ env = [path |-> <<".adsenv">>, loaded |-> FullConfig]
    /\ flags = NoFlags
    /\ user_question = NULL
    /\ config \in [api_key : {S_k}, base_url : {S_url},
                   model_name : {NULL, S_m, <<BSL, "m">>},
                   system_prompt : {S_sys, <<QUOTE>>}]
    /\ request_params \in [user_query : {NULL} \cup StringsUpTo(BuilderAlphabet, MaxStrLen),
                           custom_prompt : {NULL} \cup StringsUpTo(BuilderAlphabet, 1)]
    /\ stream_enabled \in BOOLEAN
    /\ request_json = NULL
    /\ server = NoServer
    /\ ctx = NoContext
    /\ wire = <<>>
    /\ nchunks = 0
    /\ curl_res = "none"
    /\ calls = <<>>
    /\ stdout = <<>>
    /\ stderr = <<>>
    /\ exit_status = Running
    /\ fs = NullStruct /\ stdin = NullStruct /\ reader = NullStruct

\* One call of construct_request_json.
ConstructRequestJson ==
    /\ pc = "construct_request_json"
    /\ request_json' = construct_request_json(config, request_params, stream_enabled)
    /\ pc' = "returned"
    /\ UNCHANGED <<argv, flags, user_question, env, config, request_params, stream_enabled,
                   server, ctx, wire, nchunks, curl_res, calls, stdout, stderr, exit_status>>
    /\ UNCHANGED <<fs, stdin, reader>>

NextBuild == ConstructRequestJson

SpecBuild == InitBuild /\ [][NextBuild]_vars

(***************************************************************************)
(* The dispatch alone: main with its payload built, for keys of the        *)
(* lengths around the size of the header buffer.                           *)
(***************************************************************************)
\* Lengths of the configured key: a short one, the longest that fits the
\* header buffer with its terminator, and the next two.
ApiKeyLengths ==
    {1} \cup {AuthHeaderSize - Len(AuthPrefix) + d : d \in {0 - 1, 0, 1}}

InitDispatch ==
    /\ pc = "dispatch"
    /\ argv \in [opts : {{}, {"s"}}, stop : {"none"}, question : {S_hi}]
    /\ config \in {[FullConfig EXCEPT !.api_key = Pad("k", n)] : n \in ApiKeyLengths}
    /\ env = [path |-> <<".adsenv">>, loaded |-> config]
    /\ flags = [NoFlags EXCEPT !.store_forward = "s" \in argv.opts]
    /\ user_question = S_hi
    /\ request_params = [user_query |-> S_hi, custom_prompt |-> NULL]
    /\ stream_enabled = ~flags.store_forward
    /\ request_json = construct_request_json(config, request_params, stream_enabled)
    /\ server = NoServer
    /\ ctx = NoContext
    /\ wire = <<>>
    /\ nchunks = 0
    /\ curl_res = "none"
    /\ calls = <<>>
    /\ stdout = <<>>
    /\ stderr = <<>>
    /\ exit_status = Running
    /\ fs = NullStruct /\ stdin = NullStruct /\ reader = NullStruct

NextDispatch == DispatchStreaming \/ StreamDataCallback \/ StreamingDone \/ BufferedRequest

SpecDispatch == InitDispatch /\ [][NextDispatch]_vars

(***************************************************************************)
(* Configuration discovery and loading.                                    *)
(***************************************************************************)
\* config_search_paths once the two entries that depend on HOME are filled
\* in; a path is the sequence of the strings snprintf puts together.
ConfigSearchPaths(home_dir) ==
    << <<"./.adsenv">>,
       IF home_dir # NULL THEN home_dir \o <<"/.adsenv">> ELSE NULL,
       IF home_dir # NULL THEN home_dir \o <<"/.config/.adsenv">> ELSE NULL,
       <<"/etc/ads/.adsenv">> >>

\* A faulty variant of locate_config_file: the last readable candidate wins.
locate_config_file_LastWins(home_dir, readable) ==
    LET config_search_paths == ConfigSearchPaths(home_dir)
        found == {i \in 1..Len(config_search_paths) :
                     config_search_paths[i] # NULL /\ config_search_paths[i] \in readable}
    IN  IF found = {} THEN NULL
        ELSE config_search_paths[CHOOSE i \in found : \A j \in found : j <= i]

\* locate_config_file: the first entry that is set and that access() finds
\* readable, NULL when there is none.
locate_config_file(home_dir, readable) ==
    LET config_search_paths == ConfigSearchPaths(home_dir)
        found == {i \in 1..Len(config_search_paths) :
                     config_search_paths[i] # NULL /\ config_search_paths[i] \in readable}
    IN  IF found = {} THEN NULL ELSE config_search_paths[Min(found)]

DEFAULT_MODEL == <<"d", "e", "e", "p", "s", "e", "e", "k", "-", "c", "h", "a", "t">>
DEFAULT_SYSTEM_PROMPT ==
    <<"Y", "o", "u", " ", "a", "r", "e", " ", "a", " ", "h", "e", "l", "p", "f", "u", "l", " ",
      "a", "s", "s", "i", "s", "t", "a", "n", "t", ".">>

K_API_KEY == <<"A", "P", "I", "_", "K", "E", "Y">>
K_BASE_URL == <<"B", "A", "S", "E", "_", "U", "R", "L">>
K_MODEL == <<"M", "O", "D", "E", "L">>
K_SYSTEM_PROMPT == <<"S", "Y", "S", "T", "E", "M", "_", "P", "R", "O", "M", "P", "T">>

\* isspace in the C locale.
isspace(c) == c \in {" ", "\t", LF, "\r", FF, "VT"}

\* trim_whitespace: the string without its leading and trailing white space.
trim_whitespace(string_buffer) ==
    LET kept == {i \in 1..Len(string_buffer) : ~isspace(string_buffer[i])}
    IN  IF kept = {} THEN <<>>
        ELSE SubSeq(string_buffer, Min(kept), CHOOSE i \in kept : \A j \in kept : j <= i)

\* The position of the first c in s, Len(s) + 1 when there is none
\* (strchr returning NULL).
FirstOf(s, c) == Min({i \in 1..Len(s) : s[i] = c} \cup {Len(s) + 1})

\* The field of the configuration a key names, "none" for any other key.
TargetField(key) ==
    IF key = K_API_KEY THEN "api_key"
    ELSE IF key = K_BASE_URL THEN "base_url"
    ELSE IF key = K_MODEL THEN "model_name"
    ELSE IF key = K_SYSTEM_PROMPT THEN "system_prompt"
    ELSE "none"

\* The key and the value of a line that has a delimiter.
KeyValue(line, delimiter) ==
    [key |-> trim_whitespace(SubSeq(line, 1, delimiter - 1)),
     value |-> trim_whitespace(SubSeq(line, delimiter + 1, Len(line)))]

\* The assignment a key and its value make.
FieldSet(cfg, target_field, value) ==
    IF target_field = "none" THEN cfg ELSE [cfg EXCEPT ![target_field] = value]

\* One round of the fgets loop of load_configuration, the comment removed
\* and the line trimmed.
ConfigLine(cfg, line) ==
    IF line = <<>> \/ FirstOf(line, "=") > Len(line) THEN cfg
    ELSE FieldSet(cfg, TargetField(KeyValue(line, FirstOf(line, "=")).key),
                  KeyValue(line, FirstOf(line, "=")).value)

\* The loop over the lines of the file from line i on.  Every line is
\* shorter than the 256 bytes of config_line, so fgets returns it whole.
RECURSIVE ConfigLines(_, _, _)
ConfigLines(cfg, lines, i) ==
    IF i > Len(lines) THEN cfg
    ELSE ConfigLines(
             ConfigLine(cfg, trim_whitespace(SubSeq(lines[i], 1, FirstOf(lines[i], "#") - 1))),
             lines, i + 1)

\* load_configuration on a file that opens and is read without an error.
load_configuration(lines) ==
    ConfigLines([api_key |-> NULL, base_url |-> NULL, model_name |-> DEFAULT_MODEL,
                 system_prompt |-> DEFAULT_SYSTEM_PROMPT], lines, 1)

\* Inputs: the values of HOME, the files that may be readable, and the lines
\* a configuration file is made of.
MaxLines == 2       \* lines of a configuration file

HomeDirs == {NULL, <<"/home/u">>}
ConfigFiles ==
    {<<"./.adsenv">>, <<"/home/u", "/.adsenv">>, <<"/home/u", "/.config/.adsenv">>,
     <<"/etc/ads/.adsenv">>, <<"/etc/.adsenv">>}

KeyLine(key, value) == key \o <<"=">> \o value
S_m2 == <<"m", "2">>
PlainLines ==
    {KeyLine(K_API_KEY, S_k), KeyLine(K_BASE_URL, S_url), KeyLine(K_MODEL, S_m),
     KeyLine(K_MODEL, S_m2), KeyLine(<<"S", "Y", "S", "T", "E", "M", "_", "M", "S", "G">>, S_sys)}
OtherLines ==
    {KeyLine(K_SYSTEM_PROMPT, S_sys),
     <<" ", "\t">> \o K_MODEL \o <<" ", "=", " ">> \o S_m2 \o <<" ", "#", "c">>,
     <<"#">> \o KeyLine(K_API_KEY, S_k),
     K_MODEL}
FilesOf(menu) == UNION {[1..n -> menu] : n \in 0..MaxLines}

InitConfig ==
    /\ pc = "locate_config_file"
    /\ fs \in [home_dir : HomeDirs, readable : SUBSET ConfigFiles,
               lines : FilesOf(PlainLines) \cup FilesOf(OtherLines)]
    /\ env = [path |-> NULL, loaded |-> NullStruct]
    /\ argv = [opts |-> {}, stop |-> "none", question |-> S_hi]
    /\ flags = NoFlags
    /\ user_question = S_hi
    /\ config = NullStruct
    /\ request_params = NoParams
    /\ stream_enabled = FALSE
    /\ request_json = NULL
    /\ server = NoServer
    /\ ctx = NoContext
    /\ wire = <<>>
    /\ nchunks = 0
    /\ curl_res = "none"
    /\ calls = <<>>
    /\ stdout = <<>>
    /\ stderr = <<>>
    /\ exit_status = Running
    /\ stdin = NullStruct /\ reader = NullStruct

\* main calls locate_config_file.
LocateConfigFile ==
    /\ pc = "locate_config_file"
    /\ env' = [env EXCEPT !.path = locate_config_file(fs.home_dir, fs.readable)]
    /\ pc' = IF locate_config_file(fs.home_dir, fs.readable) = NULL THEN "not_found"
             ELSE "load_configuration"
    /\ UNCHANGED <<argv, flags, user_question, config, request_params, stream_enabled,
                   request_json, server, ctx, wire, nchunks, curl_res, calls, stdout, stderr,
                   exit_status, fs, stdin, reader>>

\* main calls load_configuration on the file that was found.
LoadConfigurationFile ==
    /\ pc = "load_configuration"
    /\ env' = [env EXCEPT !.loaded = load_configuration(fs.lines)]
    /\ pc' = "loaded"
    /\ UNCHANGED <<argv, flags, user_question, config, request_params, stream_enabled,
                   request_json, server, ctx, wire, nchunks, curl_res, calls, stdout, stderr,
                   exit_status, fs, stdin, reader>>

NextConfig == LocateConfigFile \/ LoadConfigurationFile

SpecConfig == InitConfig /\ [][NextConfig]_vars

(***************************************************************************)
(* Reading the question from standard input.  The bytes are not held in    *)
(* the model: standard input is its length and the position of its first   *)
(* zero byte, and the buffer is the list of the writes made to it, each     *)
(* with its offset in the buffer and the offset in the input of its bytes.  *)
(* Allocations succeed.                                                    *)
(***************************************************************************)
\* 1024*1024, the capacity read_stdin starts with
MAX_INPUT_SIZE == 1048576

\* fread(buffer + size, 1, capacity - size, stdin) and size += bytes_read:
\* as many bytes as are asked for, or all that are left; the end-of-file
\* indicator is set when fewer are left and the stream has no read error.
\* A faulty variant first: the bytes are written at the start of buffer.
Fread_AtStart(r, in) ==
    LET bytes_read == Min({r.capacity - r.size, in.len - in.pos})
    IN  [reader |-> [r EXCEPT !.size = @ + bytes_read,
                              !.buffer = IF bytes_read = 0 THEN @
                                         ELSE Append(@, [at |-> 0, from |-> in.pos,
                                                         n |-> bytes_read,
                                                         capacity |-> r.capacity])],
         stdin |-> [in EXCEPT !.pos = @ + bytes_read,
                              !.eof = @ \/ (bytes_read < r.capacity - r.size /\ ~in.error)],
         bytes_read |-> bytes_read]

Fread(r, in) ==
    LET bytes_read == Min({r.capacity - r.size, in.len - in.pos})
    IN  [reader |-> [r EXCEPT !.size = @ + bytes_read,
                              !.buffer = IF bytes_read = 0 THEN @
                                         ELSE Append(@, [at |-> r.size, from |-> in.pos,
                                                         n |-> bytes_read,
                                                         capacity |-> r.capacity])],
         stdin |-> [in EXCEPT !.pos = @ + bytes_read,
                              !.eof = @ \/ (bytes_read < r.capacity - r.size /\ ~in.error)],
         bytes_read |-> bytes_read]

\* strlen of the buffer read_stdin returns: the offset of the first zero
\* byte, which is the terminator at buffer[size] unless the input has one.
CStringLength(r, in) ==
    Min({r.buffer[i].at + (in.nul - 1 - r.buffer[i].from) :
            i \in {j \in 1..Len(r.buffer) :
                      /\ in.nul > r.buffer[j].from
                      /\ in.nul <= r.buffer[j].from + r.buffer[j].n}}
        \cup {r.size})

\* Inputs: lengths around the initial capacity and its doublings, with no
\* zero byte or one at the start, at the end or past the initial capacity;
\* a stream that ends, or one that fails after its last byte.
MaxDoublings == 2   \* doublings of the capacity of read_stdin

RECURSIVE Doubled(_, _)
Doubled(capacity, times) == IF times = 0 THEN capacity ELSE Doubled(capacity * 2, times - 1)

StdinLengths ==
    {0, 1, MAX_INPUT_SIZE \div 2 - 1, MAX_INPUT_SIZE \div 2}
    \cup {Doubled(MAX_INPUT_SIZE, t) + d : t \in 0..MaxDoublings, d \in {0 - 1, 0, 1}}

Stdins ==
    {in \in [len : StdinLengths, nul : {0, 1, MAX_INPUT_SIZE + 1} \cup StdinLengths,
             error : BOOLEAN, pos : {0}, eof : {FALSE}] :
        in.nul \in {0, 1, MAX_INPUT_SIZE + 1, in.len} /\ in.nul <= in.len}

InitStdin ==
    /\ pc = "read_stdin"
    /\ stdin \in Stdins
    /\ reader = NullStruct
    /\ argv \in [opts : {{}, {"s"}}, stop : {"none"}, question : {<<"-">>}]
    /\ flags = [NoFlags EXCEPT !.store_forward = "s" \in argv.opts]
    /\ user_question = argv.question
    /\ env = [path |-> <<".adsenv">>, loaded |-> FullConfig]
    /\ config = NullStruct
    /\ request_params = NoParams
    /\ stream_enabled = FALSE
    /\ request_json = NULL
    /\ server = NoServer
    /\ ctx = NoContext
    /\ wire = <<>>
    /\ nchunks = 0
    /\ curl_res = "none"
    /\ calls = <<>>
    /\ stdout = <<>>
    /\ stderr = <<>>
    /\ exit_status = Running
    /\ fs = NullStruct

\* main finds the question "-" and calls read_stdin, which allocates its
\* buffer.
ReadStdinCall ==
    /\ pc = "read_stdin"
    /\ user_question = <<"-">>
    /\ reader' = [capacity |-> MAX_INPUT_SIZE, size |-> 0, buffer |-> <<>>]
    /\ pc' = "fread"
    /\ UNCHANGED <<argv, flags, user_question, env, config, request_params, stream_enabled,
                   request_json, server, ctx, wire, nchunks, curl_res, calls, stdout, stderr,
                   exit_status, fs, stdin>>

\* One round of the loop of read_stdin, given what fread did.  The loop ends
\* when fewer bytes were read than the room left after them: at end of file
\* the buffer is terminated and becomes main's question, otherwise
\* read_stdin returns NULL and main fails.  A full buffer is doubled.
ReadStdinRound(f) ==
    /\ stdin' = f.stdin
    /\ IF f.bytes_read < f.reader.capacity - f.reader.size
       THEN IF f.stdin.eof
            THEN /\ reader' = f.reader
                 /\ user_question' = [buffer |-> f.reader.buffer,
                                      length |-> CStringLength(f.reader, f.stdin)]
                 /\ pc' = "config"
                 /\ UNCHANGED <<stderr, exit_status>>
            ELSE /\ reader' = NullStruct
                 /\ stderr' = Append(stderr, Msg("Failed to read from standard input"))
                 /\ Exit(EXIT_FAILURE)
                 /\ UNCHANGED user_question
       ELSE /\ reader' = IF f.reader.size = f.reader.capacity
                         THEN [f.reader EXCEPT !.capacity = @ * 2]
                         ELSE f.reader
            /\ pc' = "fread"
            /\ UNCHANGED <<user_question, stderr, exit_status>>

ReadStdin ==
    /\ pc = "fread"
    /\ ReadStdinRound(Fread(reader, stdin))
    /\ UNCHANGED <<argv, flags, env, config, request_params, stream_enabled, request_json,
                   server, ctx, wire, nchunks, curl_res, calls, stdout, fs>>

NextStdin == ReadStdinCall \/ ReadStdin

SpecStdin == InitStdin /\ [][NextStdin]_vars

(***************************************************************************)
(* Properties of the request builder and of the dry run.                   *)
(***************************************************************************)
\* The stream member of a serialized payload.
PayloadStream(payload) == cJSON_GetObjectItem(cJSON_Parse(payload), K_stream)
StreamItem(stream) == IF stream THEN JTrue ELSE JFalse

\* The two messages a payload must carry.
SystemMessage(prompt) == JObj(<< <<K_role, JStr(K_system)>>, <<K_content, JStr(prompt)>> >>)
UserMessage(query) == JObj(<< <<K_role, JStr(K_user)>>, <<K_content, JStr(query)>> >>)

\* What a payload must deserialize to.
WellBuilt(root, model_name, prompt, query, stream) ==
    /\ cJSON_IsObject(root)
    /\ cJSON_GetObjectItem(root, K_messages) = JArr(<<SystemMessage(prompt), UserMessage(query)>>)
    /\ cJSON_GetObjectItem(root, K_model) = JStr(model_name)
    /\ cJSON_GetObjectItem(root, K_stream) = StreamItem(stream)

\* C1: for every config with a model name, every non-empty user query, every
\* optional custom prompt and either stream flag, the payload
\* construct_request_json returns deserializes to an object whose messages
\* array is exactly {role system, content custom prompt if present, else the
\* config's system prompt} then {role user, content the query}, whose model
\* is the config's model name and whose stream is the flag passed.
C1_PayloadRoundTrip ==
    (/\ pc = "returned"
     /\ config.model_name # NULL
     /\ request_params.user_query \notin {NULL, <<>>})
    => /\ request_json # NULL
       /\ WellBuilt(cJSON_Parse(request_json), config.model_name,
                    IF request_params.custom_prompt # NULL THEN request_params.custom_prompt
                    ELSE config.system_prompt,
                    request_params.user_query, stream_enabled)

\* A payload was built from a custom prompt and a query with bytes that need
\* escaping, with the stream flag set.
C1_Witness ==
    /\ pc = "returned"
    /\ config.model_name = <<BSL, "m">>
    /\ request_params.custom_prompt = <<LF>>
    /\ request_params.user_query = <<QUOTE, BSL>>
    /\ stream_enabled
    /\ request_json # NULL

\* C2: the stream value of the payload agrees with the transport path taken:
\* every request perform_http_post sends (buffered path) carries stream
\* false, every request execute_streaming_request sends carries stream true,
\* and at the dispatch point the payload's value is the path about to be
\* taken, for every flag combination.
C2_StreamMatchesPath ==
    /\ \A i \in 1..Len(calls) :
          PayloadStream(calls[i].body) = StreamItem(calls[i].fn = "execute_streaming_request")
    /\ pc = "dispatch" => PayloadStream(request_json) = StreamItem(stream_enabled)

\* A buffered request was sent by an invocation with other flags set too.
C2_Witness ==
    /\ pc = "exited"
    /\ calls # <<>>
    /\ calls[1].fn = "perform_http_post"
    /\ flags.show_tokens
    /\ flags.echo_input

\* The payloads of the dry-run scenario, byte for byte.
ScenarioPayloadStreaming ==
    <<"{", QUOTE, "m", "o", "d", "e", "l", QUOTE, ":", QUOTE, "m", QUOTE, ",",
      QUOTE, "m", "e", "s", "s", "a", "g", "e", "s", QUOTE, ":", "[", "{", QUOTE,
      "r", "o", "l", "e", QUOTE, ":", QUOTE, "s", "y", "s", "t", "e", "m", QUOTE,
      ",", QUOTE, "c", "o", "n", "t", "e", "n", "t", QUOTE, ":", QUOTE, "s", "y",
      "s", QUOTE, "}", ",", "{", QUOTE, "r", "o", "l", "e", QUOTE, ":", QUOTE, "u",
      "s", "e", "r", QUOTE, ",", QUOTE, "c", "o", "n", "t", "e", "n", "t", QUOTE,
      ":", QUOTE, "h", "i", QUOTE, "}", "]", ",", QUOTE, "s", "t", "r", "e", "a",
      "m", QUOTE, ":", "t", "r", "u", "e", "}">>
ScenarioPayloadBuffered ==
    <<"{", QUOTE, "m", "o", "d", "e", "l", QUOTE, ":", QUOTE, "m", QUOTE, ",",
      QUOTE, "m", "e", "s", "s", "a", "g", "e", "s", QUOTE, ":", "[", "{", QUOTE,
      "r", "o", "l", "e", QUOTE, ":", QUOTE, "s", "y", "s", "t", "e", "m", QUOTE,
      ",", QUOTE, "c", "o", "n", "t", "e", "n", "t", QUOTE, ":", QUOTE, "s", "y",
      "s", QUOTE, "}", ",", "{", QUOTE, "r", "o", "l", "e", QUOTE, ":", QUOTE, "u",
      "s", "e", "r", QUOTE, ",", QUOTE, "c", "o", "n", "t", "e", "n", "t", QUOTE,
      ":", QUOTE, "h", "i", QUOTE, "}", "]", ",", QUOTE, "s", "t", "r", "e", "a",
      "m", QUOTE, ":", "f", "a", "l", "s", "e", "}">>

\* The scenario: the given configuration, the query hi, and the option set given.
Scenario(opts) ==
    /\ pc = "exited"
    /\ argv = [opts |-> opts, stop |-> "none", question |-> S_hi]
    /\ env.loaded = FullConfig

\* C3 as stated: with config {k, https://example/api, m, sys}, the query hi
\* and the dry-run flag alone, standard output is exactly the payload with
\* "stream":false (and the line end printf adds), and the exit status is 0.
C3_DryRunPrintsStreamFalse ==
    Scenario({"j"})
    => /\ stdout = <<[k |-> "payload", s |-> ScenarioPayloadBuffered \o <<LF>>]>>
       /\ exit_status = EXIT_SUCCESS

\* C3: with that configuration and query and the dry-run flag alone, standard
\* output is exactly the payload with "stream":true followed by a line end,
\* and the exit status is 0; the payload says "stream":false when the
\* store-forward flag is set as well.
C3_DryRunPrintsStreamOfMode ==
    /\ Scenario({"j"})
       => /\ stdout = <<[k |-> "payload", s |-> ScenarioPayloadStreaming \o <<LF>>]>>
          /\ exit_status = EXIT_SUCCESS
    /\ Scenario({"j", "s"})
       => /\ stdout = <<[k |-> "payload", s |-> ScenarioPayloadBuffered \o <<LF>>]>>
          /\ exit_status = EXIT_SUCCESS

\* The scenario has run to its end.
C3_Witness == Scenario({"j"}) /\ stdout # <<>> /\ calls = <<>>

\* C4: whenever the dry-run flag is set and the payload was built, main has
\* printed the payload and exited with status 0, and no request was ever
\* dispatched: neither transport function was called, whatever the other
\* flags.
C4_DryRunNeverDispatches ==
    (flags.dry_run /\ request_json # NULL)
    => /\ pc = "exited"
       /\ exit_status = EXIT_SUCCESS
       /\ stdout # <<>>
       /\ stdout[Len(stdout)] = [k |-> "payload", s |-> request_json \o <<LF>>]
       /\ calls = <<>>
       /\ curl_res = "none"
       /\ server = NoServer

\* A dry run with every other flag that does not stop main earlier.
C4_Witness ==
    /\ flags.dry_run
    /\ flags.store_forward
    /\ flags.show_tokens
    /\ flags.echo_input
    /\ request_json # NULL
    /\ pc = "exited"

(***************************************************************************)
(* Properties of the exit status.                                          *)
(***************************************************************************)
\* Standard output holds an answer.
AnswerPrinted == \E i \in 1..Len(stdout) : stdout[i].k = "answer"

\* The invocation took the buffered branch of main and has ended.
BufferedEnded == pc = "exited" /\ request_json # NULL /\ ~flags.dry_run /\ ~stream_enabled

\* C5 as stated: every error of the buffered path, a failure of
\* parse_chat_response included, ends the invocation with a non-zero exit
\* status; the buffered path exits with status 0 only if an answer was
\* obtained.
C5_BufferedErrorsFail ==
    BufferedEnded => (exit_status = EXIT_SUCCESS <=> AnswerPrinted)

\* The server's answer is a rejection: a status other than 200, or a body
\* that is a well-formed error envelope.
ErrorEnvelope(body) == cJSON_IsObject(cJSON_GetObjectItem(cJSON_Parse(body), K_error))
RemoteRejection == server.status # HTTP_OK \/ ErrorEnvelope(server.body)

\* A request was sent and the transfer completed at transport level.
TransferCompleted == pc = "exited" /\ calls # <<>> /\ curl_res = "CURLE_OK"

\* C6 as stated: in both modes a response with a status other than 200, or
\* with an error envelope as its body, ends the invocation with a failure
\* exit status.
C6_RemoteErrorsFail ==
    (TransferCompleted /\ RemoteRejection) => exit_status = EXIT_FAILURE

(***************************************************************************)
(* Properties of the streaming decoder.                                    *)
(***************************************************************************)
\* The text the write callbacks have printed so far, one element per printf.
DeltaSegments == SelectSeq(stdout, LAMBDA seg : seg.k = "delta")
Emitted == [i \in 1..Len(DeltaSegments) |-> DeltaSegments[i].s]

\* The bytes of the response handed to the write callback so far.
Delivered == SubSeq(server.body, 1, Len(server.body) - Len(wire))

\* A callback reported the overflow.
OverflowReported == curl_res = "CURLE_WRITE_ERROR"

\* Single event lines, with the content each carries.
SplitEvents ==
    {[line |-> EventHello, s |-> S_Hello], [line |-> EventQuote, s |-> <<QUOTE, BSL>>]}

\* C7: when one event line (data: and a JSON text whose
\* choices[0].delta.content is s, then a newline) arrives in two chunks cut
\* anywhere before the newline, nothing is emitted after the first chunk and
\* s is emitted exactly once after the second.
C7_SplitLineEmitsOnce ==
    \A e \in SplitEvents :
        server.body = e.line
        => /\ (nchunks = 1 /\ wire # <<>>) => Emitted = <<>>
           /\ (nchunks = 2 /\ wire = <<>>) => Emitted = <<e.s>>

\* The Hello line has arrived in two chunks.
C7_Witness ==
    /\ server.body = EventHello
    /\ nchunks = 2
    /\ wire = <<>>
    /\ pc = "streaming"
    /\ Emitted = <<S_Hello>>

\* The reference decoder: the stream split at its newlines, and for each
\* complete line, in order, the content its JSON text carries.
NewlinesOf(stream) == {j \in 1..Len(stream) : stream[j] = LF}
LineEnds(stream) == SortedSeq(NewlinesOf(stream))
LineOf(stream, ends, i) ==
    SubSeq(stream, IF i = 1 THEN 1 ELSE ends[i - 1] + 1, ends[i] - 1)
LinesOf(stream, ends) == [i \in 1..Len(ends) |-> LineOf(stream, ends, i)]
ReferenceOfLines(lines) == Concat([i \in 1..Len(lines) |-> LineOutput(lines[i])])
ReferenceFeed(stream) == ReferenceOfLines(LinesOf(stream, LineEnds(stream)))

\* C8 as stated: for every byte stream and every chunking that does not
\* trigger the overflow, the text emitted by the successive callbacks is the
\* reference result for the bytes delivered so far.
C8_ChunkingIndependent ==
    (pc = "streaming" /\ ~OverflowReported) => Emitted = ReferenceFeed(Delivered)

\* The same for streams without a zero byte.
ChunkingIndependentOfText ==
    (pc = "streaming" /\ ~OverflowReported /\ \A j \in 1..Len(server.body) : server.body[j] # NUL)
    => Emitted = ReferenceFeed(Delivered)

\* One call of stream_data_callback: the chunk it was given, whether it
\* rejected the chunk, and whether the pending bytes end the buffer after it.
CallbackStep == pc = "streaming" /\ nchunks' = nchunks + 1
ChunkGiven == SubSeq(wire, 1, Len(wire) - Len(wire'))
ChunkRejected ==
    /\ curl_res' = "CURLE_WRITE_ERROR"
    /\ ctx' = ctx
    /\ stderr' = Append(stderr, Msg("Stream buffer overflow"))
    /\ stdout' = stdout
ChunkAppended ==
    /\ curl_res' = curl_res
    /\ stderr' = stderr
    /\ ctx'.buffer_len = Len(ctx'.buffer)
    /\ ctx'.buffer_len <= ctx.buffer_len + Len(ChunkGiven)
    /\ ctx'.buffer = SubSeq(ctx.buffer \o ChunkGiven,
                            ctx.buffer_len + Len(ChunkGiven) - ctx'.buffer_len + 1,
                            ctx.buffer_len + Len(ChunkGiven))

\* C9 as stated: a chunk C is rejected with the overflow failure if and only
\* if len(B) + len(C) exceeds the capacity 4096; every chunk with
\* len(B) + len(C) <= 4096 is accepted and appended.
C9_RejectsAboveCapacity ==
    [][CallbackStep
       => IF ctx.buffer_len + Len(ChunkGiven) > StreamBufferSize THEN ChunkRejected
          ELSE ChunkAppended]_vars

\* C9: a chunk C is rejected with the overflow failure, and the buffer left
\* as it was, if and only if len(B) + len(C) >= 4096; every chunk with
\* len(B) + len(C) <= 4095 is accepted and appended (one byte of the buffer
\* is kept for the terminator).
C9_RejectsAtCapacity ==
    [][CallbackStep
       => IF ctx.buffer_len + Len(ChunkGiven) >= StreamBufferSize THEN ChunkRejected
          ELSE ChunkAppended]_vars

\* A chunk that fills the buffer to its last usable byte was accepted.
C9_Witness ==
    /\ pc = "streaming"
    /\ nchunks = 2
    /\ curl_res = "pending"
    /\ ctx.buffer_len = StreamBufferSize - 1

\* The length of the longest line of the stream, the bytes after the last
\* newline counting as a line.
Max(S) == CHOOSE x \in S : \A y \in S : x >= y
LineStarts(stream) == {1} \cup {j + 1 : j \in NewlinesOf(stream)}
LineLength(stream, start) ==
    Min({j \in start..Len(stream) : stream[j] = LF} \cup {Len(stream) + 1}) - start
LongestLine(stream) == Max({LineLength(stream, start) : start \in LineStarts(stream)})

\* C10 as stated: in a stream whose lines are all shorter than the capacity,
\* no chunking makes stream_data_callback report the overflow.
C10_OverflowOnlyOnLongLine ==
    LongestLine(server.body) < StreamBufferSize => ~OverflowReported

\* C11: append is never partial.  When stream_data_callback rejects a chunk
\* for overflow, the buffer and buffer_len are what they were before the
\* call (no byte of the chunk is stored, no line is processed) and nothing
\* is emitted during the call.
C11_RejectionLeavesBuffer ==
    [][(CallbackStep /\ curl_res' = "CURLE_WRITE_ERROR")
       => /\ ctx'.buffer = ctx.buffer
          /\ ctx'.buffer_len = ctx.buffer_len
          /\ stdout' = stdout]_vars

\* A chunk was rejected while bytes of an earlier chunk were pending.
C11_Witness ==
    /\ pc = "streaming"
    /\ OverflowReported
    /\ nchunks = 2
    /\ ctx.buffer_len > 0
    /\ ctx.buffer_len < StreamBufferSize - 1

\* a is a leading part of b.
IsPrefix(a, b) == Len(a) <= Len(b) /\ a = SubSeq(b, 1, Len(a))

\* Streams with lines that carry no content (an empty line, a comment, a
\* sentinel that is not JSON, JSON without a content string), and what the
\* whole stream must emit.
SkippedLineCases ==
    {[body |-> <<LF>> \o KeepAlive \o EventLo, out |-> <<S_lo>>],
     [body |-> EventNumber \o DoneLine \o EventLo, out |-> <<S_lo>>],
     [body |-> EventRole \o DoneLine, out |-> <<>>],
     [body |-> ErrorLine, out |-> <<>>]}

UnterminatedStream == EventLo \o SubSeq(EventLo, 1, Len(EventLo) - 1)

\* C13: bytes still in the buffer when the transport closes the connection
\* are never emitted.  At no point of a run has the decoder printed content
\* of a line whose newline has not been received, even when that line is a
\* complete JSON event: what was printed is a leading part of what the
\* complete lines received so far carry, and the stream that ends in an
\* unterminated event prints the event before it and nothing more.
C13_UnterminatedLineNeverEmitted ==
    /\ IsPrefix(Emitted, ReferenceFeed(Delivered))
    /\ server.body = UnterminatedStream => IsPrefix(Emitted, <<S_lo>>)

\* The connection closed with a complete JSON event, less its newline, in
\* the buffer.
C13_Witness ==
    /\ server.body = UnterminatedStream
    /\ pc = "exited"
    /\ curl_res = "CURLE_OK"
    /\ wire = <<>>
    /\ ctx.buffer = SubSeq(EventLo, 1, Len(EventLo) - 1)
    /\ Emitted = <<S_lo>>

(***************************************************************************)
(* Token usage in streaming mode.                                          *)
(***************************************************************************)
\* The invocation has entered the streaming branch of main.
StreamingEntered ==
    /\ stream_enabled
    /\ request_json # NULL
    /\ ~flags.dry_run
    /\ pc \in {"streaming", "exited"}

\* What a streaming invocation has written to standard output, and its exit
\* status, told from the echo flag, the question and the transport's
\* behaviour (the bytes delivered and the result of the transfer) alone.
StdoutOfTransfer ==
    (IF flags.echo_input THEN <<[k |-> "echo", s |-> user_question]>> ELSE <<>>)
    \o [i \in 1..Len(ReferenceFeed(Delivered)) |->
            [k |-> "delta", s |-> ReferenceFeed(Delivered)[i]]]
    \o (IF pc = "exited" THEN <<[k |-> "newline", s |-> <<LF>>]>> ELSE <<>>)
ExitOfTransfer == IF curl_res = "CURLE_OK" THEN EXIT_SUCCESS ELSE EXIT_FAILURE

\* What it has written to standard error apart from the notice.
StderrOfTransfer ==
    (IF curl_res = "CURLE_WRITE_ERROR" THEN <<Msg("Stream buffer overflow")>> ELSE <<>>)
    \o (IF pc = "exited" /\ calls # <<>> /\ curl_res # "CURLE_OK"
        THEN <<Msg("Request failed")>> ELSE <<>>)

\* The notice that usage data is unavailable: written when the transfer has
\* returned and the flag is set.
UsageNotice ==
    IF pc = "exited" /\ calls # <<>> /\ flags.show_tokens
    THEN <<Msg("Token usage unavailable in streaming mode")>> ELSE <<>>

\* C14: asking for token usage in streaming mode is not an error.  The exit
\* status and standard output of a streaming invocation are those its other
\* flags, its question and the transport's behaviour determine, whatever the
\* show-tokens flag is, so two invocations that differ only in that flag
\* agree on both; the flag adds the notice that usage data is unavailable to
\* standard error and changes nothing else.
C14_ShowTokensOnlyAddsNotice ==
    StreamingEntered
    => /\ stdout = StdoutOfTransfer
       /\ pc = "exited" => exit_status = ExitOfTransfer
       /\ stderr = StderrOfTransfer \o UsageNotice

\* A streaming invocation with the flag set has printed an answer and ended
\* with success.
C14_Witness ==
    /\ StreamingEntered
    /\ pc = "exited"
    /\ flags.show_tokens
    /\ Emitted = <<S_lo>>
    /\ exit_status = EXIT_SUCCESS
    /\ UsageNotice # <<>>

(***************************************************************************)
(* Properties of the buffered response parser, seen through main.          *)
(***************************************************************************)
\* The buffered request was answered with status 200 and this body, and
\* main has ended.
BufferedAnswered(body) ==
    /\ BufferedEnded
    /\ calls # <<>>
    /\ curl_res = "CURLE_OK"
    /\ server = [status |-> HTTP_OK, body |-> body]

\* Standard output before the answer: the echo, when it was asked for.
EchoOnly == IF flags.echo_input THEN <<[k |-> "echo", s |-> user_question]>> ELSE <<>>

\* Bodies with an error member, and the message each must be reported with.
S_Unknown == <<"Unknown error">>
ErrorCases ==
    {[body |-> ErrorBody(S_bad), msg |-> S_bad],
     [body |-> ErrorWithAnswer, msg |-> S_bad],
     [body |-> ErrorNumberMessage, msg |-> S_Unknown],
     [body |-> ErrorString, msg |-> S_Unknown],
     [body |-> AnswerWithNullError, msg |-> S_Unknown],
     [body |-> cJSON_PrintUnformatted(JObj(<< <<K_error, JObj(<<>>)>> >>)), msg |-> S_Unknown]}

\* The decoded body has an error member.
HasErrorField(body) ==
    body # <<>> /\ cJSON_GetObjectItem(cJSON_Parse(body), K_error) # JNone

\* C15: whenever the decoded body has an error field, parse_chat_response
\* fails with the remote error and reports exactly the nested message
\* string, or the placeholder when the message is absent or not a string,
\* and does not read choices: the outcome is the same with and without a
\* valid choices and usage next to the error.
C15_ErrorFieldWins ==
    /\ \A e \in ErrorCases :
          BufferedAnswered(e.body)
          => /\ stderr = <<[k |-> "API error", s |-> e.msg],
                           Msg("Failed to get valid response")>>
             /\ stdout = EchoOnly
    /\ (BufferedAnswered(server.body) /\ HasErrorField(server.body))
       => /\ stderr[1].k = "API error"
          /\ stdout = EchoOnly

\* A body with an error and a valid answer was parsed, token usage asked for.
C15_Witness ==
    /\ BufferedAnswered(ErrorWithAnswer)
    /\ flags.show_tokens
    /\ stderr # <<>>

\* Usage objects, and the summary of input, output and total count main must
\* print for each.
TokenCases ==
    {[usage |-> Usage3, summary |-> <<"1", "0", " ", "5", " ", "1", "5">>],
     [usage |-> Usage2, summary |-> <<"1", "0", " ", "0", " ", "1", "5">>],
     [usage |-> Usage1, summary |-> <<"0", " ", "5", " ", "0">>],
     [usage |-> Usage0, summary |-> <<"0", " ", "0", " ", "0">>],
     [usage |-> <<>>, summary |-> <<"0", " ", "0", " ", "0">>]}

\* C16: on a successful parse each of the input, output and total token
\* counts is the usage.prompt_tokens, usage.completion_tokens and
\* usage.total_tokens value when that field is present and 0 when it is
\* absent, each field on its own; without a usage object all three are 0
\* (usage {10, 5, 15} gives 10, 5, 15).
C16_TokenCountsPerField ==
    \A u \in TokenCases :
        (BufferedAnswered(ChatBody(JStr(S_Hello), u.usage)) /\ flags.show_tokens)
        => stdout = EchoOnly \o <<[k |-> "answer", s |-> S_Hello \o <<LF>>],
                                  [k |-> "tokens", s |-> u.summary]>>

\* An answer whose usage lacks the completion count was printed with its
\* token summary.
C16_Witness ==
    /\ BufferedAnswered(ChatBody(JStr(S_Hello), Usage2))
    /\ flags.show_tokens
    /\ Len(stdout) >= 2

\* The conditions of a successful parse, on the decoded body.
FirstContent(root) ==
    cJSON_GetObjectItem(
        cJSON_GetObjectItem(cJSON_GetArrayItem(cJSON_GetObjectItem(root, K_choices), 0),
                            K_message),
        K_content)
DecodesToAnswer(root) ==
    /\ root # JNone
    /\ cJSON_GetObjectItem(root, K_error) = JNone
    /\ cJSON_IsArray(cJSON_GetObjectItem(root, K_choices))
    /\ cJSON_GetArraySize(cJSON_GetObjectItem(root, K_choices)) >= 1
    /\ cJSON_IsString(FirstContent(root))
ParsesToAnswer(body) == body # <<>> /\ DecodesToAnswer(cJSON_Parse(body))

\* The bodies of the model that carry an answer.
AnswerBodies ==
    {ChatBody(JStr(S_Hello), u) : u \in {Usage3, Usage2, Usage1, Usage0, <<>>}}
    \cup {ChatBody(JStr(<<>>), <<>>)}

\* What main prints for a parse failure: the reason, then its own message.
ParseFailureReasons ==
    {"Received empty response", "JSON parsing failed", "API error", "Invalid choices array",
     "Invalid content format"}

\* C17: parse_chat_response returns a result if and only if the body is not
\* empty, decodes as JSON, has no error field, has a choices array with at
\* least one element, and the first element's message.content is a string;
\* the content returned is that string.  In every other case it returns the
\* failure value, and nothing of a result.
C17_ParseSucceedsExactlyWhen ==
    BufferedAnswered(server.body)
    => /\ ParsesToAnswer(server.body) <=> server.body \in AnswerBodies
       /\ IF ParsesToAnswer(server.body)
          THEN /\ stderr = <<>>
               /\ Len(stdout) >= Len(EchoOnly) + 1
               /\ SubSeq(stdout, 1, Len(EchoOnly) + 1)
                  = EchoOnly \o <<[k |-> "answer",
                                   s |-> FirstContent(cJSON_Parse(server.body)).v \o <<LF>>]>>
          ELSE /\ stdout = EchoOnly
               /\ Len(stderr) = 2
               /\ stderr[1].k \in ParseFailureReasons
               /\ stderr[2] = Msg("Failed to get valid response")

\* A body whose content is a number was parsed.
C17_Witness ==
    /\ BufferedAnswered(ChatBody(JNum(7), Usage3))
    /\ flags.show_tokens
    /\ stdout = <<>>

(***************************************************************************)
(* Properties of the orchestration.                                        *)
(***************************************************************************)
\* The command line was accepted, so main goes on to the configuration.
ArgumentsAccepted == argv.stop = "none" /\ argv.question # NULL

\* The configuration cannot be used: no file, a file that does not load, or
\* one without api_key or base_url.
ConfigUnusable ==
    \/ env.path = NULL
    \/ env.loaded = NullStruct
    \/ (env.loaded # NullStruct /\ (env.loaded.api_key = NULL \/ env.loaded.base_url = NULL))

\* Nothing of a request has happened: main is not past the configuration, no
\* payload exists, no request was handed to the transport, and neither the
\* echo nor a payload was printed.
NoRequestActivity ==
    /\ pc \in {"parse_cli_arguments", "config", "exited"}
    /\ request_json = NULL
    /\ calls = <<>>
    /\ curl_res = "none"
    /\ \A i \in 1..Len(stdout) : stdout[i].k \notin {"echo", "payload", "answer", "delta"}

\* C18 as stated: if the loaded configuration lacks api_key or base_url, or
\* cannot be loaded, the invocation fails with a non-zero exit status before
\* the request is built: no payload is printed, no request is attempted, no
\* echo is printed.
C18_UnusableConfigFails ==
    (ArgumentsAccepted /\ ConfigUnusable)
    => /\ NoRequestActivity
       /\ pc = "exited" => exit_status = EXIT_FAILURE

\* The configuration loads but lacks a required field, and -p is given.
IncompleteConfigDumped ==
    /\ "p" \in argv.opts
    /\ env.path # NULL
    /\ env.loaded # NullStruct

\* C18: if the loaded configuration lacks api_key or base_url, or cannot be
\* loaded, no payload is printed (even with dry-run set), no request is
\* attempted in either mode and no echo is printed; the invocation fails
\* with a non-zero exit status and prints nothing, except that with the
\* print-config flag a configuration that loads without a required field is
\* dumped and the exit status is 0.
C18_UnusableConfigStopsMain ==
    (ArgumentsAccepted /\ ConfigUnusable)
    => /\ NoRequestActivity
       /\ pc = "exited"
          => IF IncompleteConfigDumped
             THEN exit_status = EXIT_SUCCESS /\ Len(stdout) = 1 /\ stdout[1].k = "configuration"
             ELSE exit_status = EXIT_FAILURE /\ stdout = <<>> /\ stderr # <<>>

\* A dry run with echo has ended on a configuration without api_key.
C18_Witness ==
    /\ pc = "exited"
    /\ argv = [opts |-> {"j", "e"}, stop |-> "none", question |-> S_hi]
    /\ env.loaded = [FullConfig EXCEPT !.api_key = NULL]
    /\ exit_status = EXIT_FAILURE

\* The transport function the command line selects.
PathOfArguments ==
    IF "s" \in argv.opts THEN "perform_http_post" ELSE "execute_streaming_request"

\* C19: at most one HTTP request is made per invocation.  After a transport
\* failure, a status other than 200, a parse failure or a stream overflow no
\* second request is issued and the other mode is not tried; the mode,
\* streaming unless the store-forward flag is set, is decided before the
\* dispatch, and exactly one of the two paths is entered.
C19_AtMostOneRequest ==
    /\ Len(calls) <= 1
    /\ calls # <<>> => calls[1].fn = PathOfArguments
    /\ pc \in {"dispatch", "streaming"} => stream_enabled = ("s" \notin argv.opts)
    /\ (pc = "streaming" \/ nchunks > 0) => "s" \notin argv.opts
    /\ AnswerPrinted => "s" \in argv.opts
    /\ (pc = "exited" /\ calls # <<>> /\ curl_res # "CURLE_OK") => exit_status = EXIT_FAILURE

\* A streaming request has ended in the overflow, and main has exited.
C19_Witness ==
    /\ pc = "exited"
    /\ Len(calls) = 1
    /\ curl_res = "CURLE_WRITE_ERROR"
    /\ exit_status = EXIT_FAILURE

\* C20 as stated: every dispatched request carries the 30-second timeout,
\* the buffered one and the streaming one alike.
C20_EveryRequestHasTimeout ==
    \A i \in 1..Len(calls) : calls[i].timeout = RequestTimeout

(***************************************************************************)
(* Presence of the output segments.                                        *)
(***************************************************************************)
\* Standard output holds the token summary; it holds answer text, printed
\* whole by the buffered branch or piece by piece by the write callback.
TokensPrinted == \E i \in 1..Len(stdout) : stdout[i].k = "tokens"
AnswerTextPrinted == AnswerPrinted \/ DeltaSegments # <<>>

\* The token summary is there exactly when it was asked for in buffered mode
\* and the response was parsed.
TokensExactlyWhenParsed ==
    pc = "exited"
    => (TokensPrinted
        <=> /\ flags.show_tokens
            /\ flags.store_forward
            /\ BufferedAnswered(server.body)
            /\ ParsesToAnswer(server.body))

\* C22 as stated: the three token counters are printed if and only if the
\* show-tokens flag is set, the mode is buffered and the response was parsed
\* successfully (never in streaming mode, in a dry run or after a failure),
\* and answer text is printed if and only if a request succeeded: answer
\* text on standard output means the invocation ended with success, and a
\* buffered request that ended with success has printed its answer.
C22_OutputPresence ==
    /\ TokensExactlyWhenParsed
    /\ (pc = "exited" /\ AnswerTextPrinted) => exit_status = EXIT_SUCCESS
    /\ (BufferedEnded /\ calls # <<>> /\ exit_status = EXIT_SUCCESS) => AnswerPrinted

(***************************************************************************)
(* The print-config flag.                                                  *)
(***************************************************************************)
\* The configuration was dumped on standard output.
ConfigurationPrinted == \E i \in 1..Len(stdout) : stdout[i].k = "configuration"

\* C23 as stated: with the print-config flag the program prints the current
\* configuration and exits with status 0 without building or sending a
\* request, also when no question argument is given, as in the documented
\* example `ads -p` (the configuration file being there and loadable).
C23_PrintConfigNeedsNoQuestion ==
    (/\ pc = "exited"
     /\ "p" \in argv.opts
     /\ argv.stop = "none"
     /\ env.path # NULL
     /\ env.loaded # NullStruct)
    => /\ ConfigurationPrinted
       /\ exit_status = EXIT_SUCCESS
       /\ request_json = NULL
       /\ calls = <<>>

\* The same for the invocations that give a question.
PrintConfigWithQuestion == argv.question # NULL => C23_PrintConfigNeedsNoQuestion

(***************************************************************************)
(* The overflow of the stream buffer is fatal.                             *)
(***************************************************************************)
\* stream_data_callback has reported the overflow on standard error.
OverflowMessage == \E i \in 1..Len(stderr) : stderr[i] = Msg("Stream buffer overflow")

\* C27: a stream buffer overflow aborts the stream and is never recovered
\* from.  Once stream_data_callback has reported the overflow, the only step
\* left is the end of the transfer with a transport error: no later chunk is
\* delivered to the decoder, the buffer stays as it is, nothing but the
\* closing newline is written to standard output, and the invocation exits
\* with a non-zero status.
C27_OverflowIsFatal ==
    [][OverflowMessage
       => /\ pc = "streaming" /\ pc' = "exited"
          /\ curl_res = "CURLE_WRITE_ERROR" /\ curl_res' = "CURLE_WRITE_ERROR"
          /\ nchunks' = nchunks
          /\ wire' = wire
          /\ ctx' = ctx
          /\ stdout' = Append(stdout, [k |-> "newline", s |-> <<LF>>])
          /\ Len(stderr') > Len(stderr)
          /\ stderr'[Len(stderr) + 1] = Msg("Request failed")
          /\ exit_status' = EXIT_FAILURE]_vars

\* A stream that had printed text overflowed with bytes still to come, and
\* the invocation has ended.
C27_Witness ==
    /\ pc = "exited"
    /\ OverflowMessage
    /\ Emitted = <<S_lo>>
    /\ wire # <<>>
    /\ exit_status = EXIT_FAILURE

(***************************************************************************)
(* Output of an invocation that fails.                                     *)
(***************************************************************************)
\* The invocation has ended with a non-zero exit status.
EndedInError == pc = "exited" /\ exit_status # EXIT_SUCCESS

BufferAfterCopy == ctx.buffer \o ChunkGiven
FinalLineStart == Len(BufferAfterCopy) - ctx'.buffer_len

\* Where the lines the loop has processed begin (positions from 1), and how
\* far the pointer moves when the prefix is skipped.
ProcessedLineStarts ==
    {ls \in 1..FinalLineStart : ls = 1 \/ BufferAfterCopy[ls - 1] = LF}
PrefixSkip(line) == Len(line) - Len(StripDataPrefix(line))

\* C29: in every state reachable by calls of stream_data_callback from an
\* empty context, 0 <= buffer_len <= 4095 and buffer_len bytes are pending.
\* In an accepted call the memcpy ends, and the terminator is written, at an
\* index of at most 4095; every line pointer, also after the six bytes of
\* the prefix are skipped, stays at or before the end of its line, which
\* lies inside the pending bytes; and the memmove reads from line_start up
\* to the end of the pending bytes and no further.
C29_BufferBounds ==
    [][CallbackStep
       => /\ ctx'.buffer_len \in 0..(StreamBufferSize - 1)
          /\ Len(ctx'.buffer) = ctx'.buffer_len
          /\ curl_res' = "pending"
             => /\ Len(BufferAfterCopy) <= StreamBufferSize - 1
                /\ FinalLineStart \in 0..Len(BufferAfterCopy)
                /\ \A ls \in ProcessedLineStarts :
                      LET line_end == NextNewline(BufferAfterCopy, ls)
                      IN  /\ line_end \in ls..FinalLineStart
                          /\ PrefixSkip(SubSeq(BufferAfterCopy, ls, line_end - 1)) \in {0, 6}
                          /\ ls + PrefixSkip(SubSeq(BufferAfterCopy, ls, line_end - 1))
                             <= line_end]_vars

\* The buffer is full to its last usable byte.
C29_Witness ==
    /\ pc = "streaming"
    /\ curl_res = "pending"
    /\ ctx.buffer_len = StreamBufferSize - 1
    /\ Len(ctx.buffer) = StreamBufferSize - 1

(***************************************************************************)
(* What the buffer holds between two calls.                                *)
(***************************************************************************)
\* The bytes of a stream after its last newline.
AfterLastNewline(stream) ==
    SubSeq(stream, Max(NewlinesOf(stream) \cup {0}) + 1, Len(stream))

\* C30 as stated: after every accepted chunk, for chunks of arbitrary byte
\* content, zero bytes included, the buffer holds exactly the bytes received
\* after the last newline received so far: it contains no newline, every
\* line whose newline has arrived having been extracted by the end of the
\* callback that delivered the newline.
C30_BufferIsUnfinishedLine ==
    (pc = "streaming" /\ curl_res = "pending")
    => /\ \A j \in 1..Len(ctx.buffer) : ctx.buffer[j] # LF
       /\ ctx.buffer = AfterLastNewline(Delivered)

\* The same for the responses that hold no zero byte.
TextBufferIsUnfinishedLine ==
    (\A j \in 1..Len(server.body) : server.body[j] # NUL) => C30_BufferIsUnfinishedLine

(***************************************************************************)
(* Headers of the request.                                                 *)
(***************************************************************************)
\* The two headers of a request that carries the whole configured key.
FullHeaders == <<ContentTypeHeader, AuthPrefix \o config.api_key>>

\* C21 as stated: every request that is sent, in buffered and in streaming
\* mode, carries the headers Content-Type: application/json and
\* Authorization: Bearer <api_key> with the complete configured key; with a
\* key too long for the header buffer no request is sent.
C21_HeadersCarryWholeKey ==
    /\ \A i \in 1..Len(calls) : calls[i].headers = FullHeaders
    /\ AuthHeaderLength(config.api_key) >= AuthHeaderSize => calls = <<>>

\* The same for the buffered mode alone.
BufferedHeadersCarryWholeKey == ~stream_enabled => C21_HeadersCarryWholeKey

(***************************************************************************)
(* Properties of the configuration discovery and of the file format.       *)
(***************************************************************************)
\* The four documented locations, and those that can be used: readable, and
\* for the two below the home directory, HOME being set.
DocumentedLocations ==
    << <<"./.adsenv">>, fs.home_dir \o <<"/.adsenv">>, fs.home_dir \o <<"/.config/.adsenv">>,
       <<"/etc/ads/.adsenv">> >>
UsableLocations ==
    {i \in 1..4 : /\ DocumentedLocations[i] \in fs.readable
                  /\ i \in {2, 3} => fs.home_dir # NULL}

\* C25: configuration discovery returns the first readable file in the
\* order ./.adsenv, ~/.adsenv, ~/.config/.adsenv, /etc/ads/.adsenv, the two
\* home-relative candidates being skipped when HOME is unset; it reports
\* not-found only when none of them is readable, and a readable earlier
\* candidate wins over any later one.
C25_FirstReadableWins ==
    pc \in {"not_found", "load_configuration", "loaded"}
    => IF UsableLocations = {} THEN env.path = NULL /\ pc = "not_found"
       ELSE /\ pc # "not_found"
            /\ \E i \in UsableLocations :
                  /\ env.path = DocumentedLocations[i]
                  /\ \A j \in UsableLocations : i <= j

\* HOME is unset, the files below the home directory are readable, and the
\* system-wide file was found.
C25_Witness ==
    /\ pc = "load_configuration"
    /\ fs.home_dir = NULL
    /\ <<"/home/u", "/.adsenv">> \in fs.readable
    /\ <<"./.adsenv">> \notin fs.readable
    /\ env.path = <<"/etc/ads/.adsenv">>

\* The value the last line KEY=<value> of the file gives a key, and the
\* default when the file has no such line.
LinesOfKey(key) ==
    {i \in 1..Len(fs.lines) :
        /\ Len(fs.lines[i]) > Len(key)
        /\ SubSeq(fs.lines[i], 1, Len(key) + 1) = key \o <<"=">>}
LastValue(key, default) ==
    IF LinesOfKey(key) = {} THEN default
    ELSE SubSeq(fs.lines[Max(LinesOfKey(key))], Len(key) + 2,
                Len(fs.lines[Max(LinesOfKey(key))]))

\* A file of lines KEY=<value> with the documented keys has been loaded.
PlainFileLoaded == pc = "loaded" /\ \A i \in 1..Len(fs.lines) : fs.lines[i] \in PlainLines

\* API_KEY, BASE_URL and MODEL are honoured.
OtherKeysHonoured ==
    PlainFileLoaded
    => /\ env.loaded.api_key = LastValue(K_API_KEY, NULL)
       /\ env.loaded.base_url = LastValue(K_BASE_URL, NULL)
       /\ env.loaded.model_name = LastValue(K_MODEL, DEFAULT_MODEL)

\* C26 as stated: the keys documented in the Readme are honoured.  A line
\* SYSTEM_MSG=<text> sets the system prompt, as API_KEY, BASE_URL and MODEL
\* set the key, the URL and the model; without the line the model is
\* deepseek-chat and the system prompt the built-in default; when a key is
\* repeated the last value is used.
C26_DocumentedKeysHonoured ==
    /\ OtherKeysHonoured
    /\ PlainFileLoaded
       => env.loaded.system_prompt
          = LastValue(<<"S", "Y", "S", "T", "E", "M", "_", "M", "S", "G">>, DEFAULT_SYSTEM_PROMPT)

\* The system prompt is set by the key SYSTEM_PROMPT.
SystemPromptKeyHonoured ==
    pc = "loaded" => env.loaded.system_prompt = LastValue(K_SYSTEM_PROMPT, DEFAULT_SYSTEM_PROMPT)

(***************************************************************************)
(* Properties of read_stdin.                                               *)
(***************************************************************************)
\* The writes made to the buffer lie side by side from offset 0, each holds
\* the bytes of the input of the same offsets, and each ends inside the
\* capacity the buffer had when it was made; together they are the whole
\* input, with room left for the terminator.
WritesInOrder(r) ==
    \A i \in 1..Len(r.buffer) :
        /\ r.buffer[i].at = IF i = 1 THEN 0 ELSE r.buffer[i - 1].at + r.buffer[i - 1].n
        /\ r.buffer[i].from = r.buffer[i].at
        /\ r.buffer[i].at + r.buffer[i].n <= r.buffer[i].capacity
WholeInputRead(r, in) ==
    /\ r.size = in.len
    /\ r.size = IF r.buffer = <<>> THEN 0
                ELSE r.buffer[Len(r.buffer)].at + r.buffer[Len(r.buffer)].n
    /\ r.size < r.capacity

\* One round of the loop: it goes on only after it has read a byte, it
\* fails only on a read error, and every write is in its place; the
\* question main is left with has the given length.
ReadStdinReturns(length) ==
    pc = "fread"
    => /\ pc' = "exited" => stdin.error
       /\ pc' # "exited" => WritesInOrder(reader')
       /\ pc' = "fread" => stdin'.pos > stdin.pos /\ reader'.size <= reader'.capacity
       /\ pc' = "config"
          => /\ ~stdin.error
             /\ WholeInputRead(reader', stdin')
             /\ user_question'.buffer = reader'.buffer
             /\ user_question'.length = length

\* C24 as stated: when the question is "-", the question main goes on with
\* is the entire content of standard input up to end of file, for every
\* input length (at, just below and above the initial capacity of 1 MB and
\* its doublings): read_stdin returns all the bytes read, terminated, never
\* writes past the allocated capacity, and terminates.
C24_StdinIsTheQuestion == [][ReadStdinReturns(stdin.len)]_vars

\* C24: the same, the question being the content of standard input up to
\* its first zero byte, and all of it when it holds none.
C24_StdinUpToZeroByte ==
    [][ReadStdinReturns(IF stdin.nul = 0 THEN stdin.len ELSE stdin.nul - 1)]_vars

\* An input of twice the initial capacity was read in two writes, the
\* buffer was doubled twice, and the question ends at the zero byte of the
\* second megabyte.
C24_Witness ==
    /\ pc = "config"
    /\ stdin.len = 2 * MAX_INPUT_SIZE
    /\ stdin.nul = MAX_INPUT_SIZE + 1
    /\ Len(reader.buffer) = 2
    /\ reader.capacity = 4 * MAX_INPUT_SIZE
    /\ user_question.length = MAX_INPUT_SIZE

====
